---- MODULE Spec2Model ----
(***************************************************************************)
(* Session enforcement, sign-up admission, app_state singleton and the     *)
(* duplicate-tab handshake of vector-projector.                            *)
(*                                                                         *)
(* Server side: every Convex mutation is one atomic action; a mutation     *)
(* that throws leaves the database as it was.  Time is counted in ticks of *)
(* ten minutes, so one tick is the lifetime of a backer claim token and    *)
(* closes every one-minute rate-limit window.                              *)
(***************************************************************************)
EXTENDS Integers, Sequences, FiniteSets, TLC

VARIABLES
    now,            \* Date.now(), in ticks
    users,          \* table "users", in insertion order; _id = position
    backers,        \* table "crowdfunding_backers", in insertion order; _id = position
    app_state,      \* table "app_state", rows with key "config", in insertion order
    nextSession,    \* how many crypto.randomUUID() session ids were handed out
    nextClaim,      \* how many claim tokens were minted
    sessionCreate,  \* rate limiter "sessionCreate": calls per authUserId in this window
    backerVerify,   \* rate limiter "backerVerify": calls per lowercased username in this window
    issued,         \* per identity, the session ids ensureAppUser returned, oldest first
    redeemed,       \* the (proof id, claim token) pairs that admitted a new user
    last,           \* the last call and what it returned
    tabs,           \* per browser tab, the state of its useSession hook
    channel,        \* BroadcastChannel "vp_tab_coordination": messages not yet delivered
    tabClock,       \* Date.now() of the browser
    localStorage,   \* the browser's localStorage entry "vp_session_id"
    login,          \* the identity the identity provider reports to the browser
    pricing_catalog,\* table "pricing_catalog", rows with key "catalog"
    stripe,         \* the active products and recurring prices of the Stripe account
    syncRun,        \* the pricingCatalog.sync action in progress, if any
    pending_uploads,\* table "pending_uploads"
    stl_files,      \* table "stl_files", each row with the blob committed to its path
    nextBlob,       \* number of blobs written to storage so far
    uploading,      \* per identity, the /upload requests past the pending check
    fileUpload,     \* rate limiter "fileUpload": tokens taken since the last refill
    app             \* the App component of one page: its OAuth-pending state

serverVars == <<now, users, backers, app_state, nextSession, nextClaim,
                sessionCreate, backerVerify, issued, redeemed, last>>
tabVars == <<tabs, channel, tabClock, localStorage, login>>
catalogVars == <<pricing_catalog, stripe, syncRun>>
uploadVars == <<pending_uploads, stl_files, nextBlob, uploading, fileUpload>>
appVars == <<app>>
vars == <<serverVars, tabVars, catalogVars, uploadVars, appVars>>

----------------------------------------------------------------------------
(* Bounds of the model *)

MaxTime == 3
MaxSessions == 2
MaxClaims == 1
MaxRows == 2
MaxTabTime == 2
MaxPage == 2
MaxBlobs == 2
MaxUploadTime == 10

----------------------------------------------------------------------------
(* Absent values: JavaScript undefined/null, all of them falsy like the    *)
(* values that stand for them here.                                        *)

NoId == 0
NoTime == 0
NoToken == ""
NoSession == <<>>
NoAuth == "anonymous"

(* The identities Better Auth can report and their verified emails.  auth3 *)
(* shares the email of auth1.                                              *)
Identities == {"auth1", "auth2", "auth3"}
emailOf(authUserId) ==
    IF authUserId = "auth2" THEN "b@example.com" ELSE "a@example.com"

----------------------------------------------------------------------------
(* Session ids are strings, modelled as sequences of characters.           *)

Digits == {"0", "1", "2", "3", "4", "5", "6", "7", "8", "9"}
HexLower == {"a", "b", "c", "d", "e", "f"}
HexUpper == {"A", "B", "C", "D", "E", "F"}
HexChars == Digits \cup HexLower \cup HexUpper

DigitChar(n) ==
    CASE n = 0 -> "0" [] n = 1 -> "1" [] n = 2 -> "2" [] n = 3 -> "3" [] n = 4 -> "4"
      [] n = 5 -> "5" [] n = 6 -> "6" [] n = 7 -> "7" [] n = 8 -> "8" [] n = 9 -> "9"

Zeros(n) == [i \in 1..n |-> "0"]

(* The n-th value of crypto.randomUUID(): a lower-case version 4 UUID that *)
(* no earlier call returned.                                               *)
randomUUID(n) ==
    Zeros(6) \o <<DigitChar(n \div 10), DigitChar(n % 10)>> \o <<"-">> \o Zeros(4) \o <<"-", "4">> \o Zeros(3)
        \o <<"-", "8">> \o Zeros(3) \o <<"-">> \o Zeros(12)

ToUpperChar(c) ==
    CASE c = "a" -> "A" [] c = "b" -> "B" [] c = "c" -> "C" [] c = "d" -> "D"
      [] c = "e" -> "E" [] c = "f" -> "F" [] OTHER -> c

(* One character of the pattern                                            *)
(* /^[0-9a-f]{8}-[0-9a-f]{4}-4[0-9a-f]{3}-[89ab][0-9a-f]{3}-[0-9a-f]{12}$/i *)
uuidCharOk(s, i) ==
    IF i \in {9, 14, 19, 24} THEN s[i] = "-"
    ELSE IF i = 15 THEN s[i] = "4"
    ELSE IF i = 20 THEN s[i] \in {"8", "9", "a", "b", "A", "B"}
    ELSE s[i] \in HexChars

(* SESSION_ID_REGEX.test(s) *)
SESSION_ID_REGEX_unanchored(s) ==
    \E from \in 0..(Len(s) - 36) :
        \A i \in 1..36 : uuidCharOk([k \in 1..36 |-> s[from + k]], i)
SESSION_ID_REGEX(s) ==
    /\ Len(s) = 36
    /\ \A i \in 1..36 : uuidCharOk(s, i)

----------------------------------------------------------------------------
(* Strings that are lower-cased are sequences of characters too.           *)

toLowerChar(c) ==
    CASE c = "A" -> "a" [] c = "B" -> "b" [] c = "C" -> "c" [] c = "E" -> "e"
      [] c = "I" -> "i" [] c = "L" -> "l" [] c = "O" -> "o" [] OTHER -> c

toLowerCase(s) == [i \in 1..Len(s) |-> toLowerChar(s[i])]

Alice == <<"A", "l", "i", "c", "e">>
alice == <<"a", "l", "i", "c", "e">>
ALICE == <<"A", "L", "I", "C", "E">>
bob == <<"b", "o", "b">>

StoredUsernames == {Alice}
Handles == {Alice, alice, ALICE, bob}
HandleKeys == {toLowerCase(h) : h \in Handles}
StoredCodes == {"X1"}
AccessCodes == {"X1", "Z9"}

----------------------------------------------------------------------------
(* Rate limiter (fixed window): limit() lets `rate` calls per key through  *)
(* in one window.                                                          *)

SESSION_CREATE_RATE == 10
BACKER_VERIFY_RATE == 5

rateLimitOk_offByOne(count, rate) == count <= rate
rateLimitOk(count, rate) == count < rate

----------------------------------------------------------------------------
(* app_state *)

isLater_older(record, latest) == record._creationTime < latest._creationTime
isLater(record, latest) == record._creationTime > latest._creationTime

RECURSIVE reduceLatest(_, _, _)
reduceLatest(records, i, latest) ==
    IF i > Len(records) THEN latest
    ELSE reduceLatest(records, i + 1,
                      IF isLater(records[i], latest) THEN records[i] ELSE latest)

(* records.reduce((latest, record) => ...) without an initial value starts *)
(* from records[0]; it is only called on a non-empty list.                 *)
pickLatestByCreation(records) == reduceLatest(records, 2, records[1])

(* The _id ctx.db.insert gives a new row: one that no row of the table has. *)
newRowId(rows) ==
    CHOOSE id \in 1..(Len(rows) + 1) : \A i \in 1..Len(rows) : rows[i]._id # id

(* appState.get *)
getResult(states) ==
    IF Len(states) = 0 THEN [crowdfundingActive |-> FALSE]
    ELSE [crowdfundingActive |-> pickLatestByCreation(states).crowdfundingActive]

get ==
    /\ last' = [op |-> "appState.get", before |-> app_state,
                value |-> getResult(app_state)]
    /\ UNCHANGED <<now, users, backers, app_state, nextSession, nextClaim,
                   sessionCreate, backerVerify, issued, redeemed>>

(* appState.set: the rows left after the patch of the primary row and the  *)
(* delete loop.                                                            *)
setRows_keepsDuplicates(existing, primary, crowdfundingActive) ==
    [i \in 1..Len(existing) |->
        IF existing[i]._id = primary._id
        THEN [existing[i] EXCEPT !.crowdfundingActive = crowdfundingActive]
        ELSE existing[i]]
setRows(existing, primary, crowdfundingActive) ==
    LET patched == [i \in 1..Len(existing) |->
                       IF existing[i]._id = primary._id
                       THEN [existing[i] EXCEPT !.crowdfundingActive = crowdfundingActive]
                       ELSE existing[i]]
    IN SelectSeq(patched, LAMBDA record : record._id = primary._id)

set(crowdfundingActive) ==
    /\ IF Len(app_state) = 0
       THEN app_state' = <<[_id |-> newRowId(app_state), _creationTime |-> now,
                            crowdfundingActive |-> crowdfundingActive]>>
       ELSE app_state' = setRows(app_state, pickLatestByCreation(app_state),
                                 crowdfundingActive)
    /\ last' = [op |-> "appState.set", before |-> app_state,
                crowdfundingActive |-> crowdfundingActive]
    /\ UNCHANGED <<now, users, backers, nextSession, nextClaim,
                   sessionCreate, backerVerify, issued, redeemed>>

(* A row written to app_state directly (dashboard, import): the table has  *)
(* no uniqueness constraint on key.                                        *)
insertAppStateRow(crowdfundingActive) ==
    /\ Len(app_state) < MaxRows
    /\ app_state' = Append(app_state, [_id |-> newRowId(app_state), _creationTime |-> now,
                                       crowdfundingActive |-> crowdfundingActive])
    /\ last' = [op |-> "insertAppStateRow", crowdfundingActive |-> crowdfundingActive]
    /\ UNCHANGED <<now, users, backers, nextSession, nextClaim,
                   sessionCreate, backerVerify, issued, redeemed>>

----------------------------------------------------------------------------
(* crowdfunding_backers *)

backerByUsernameCode(username, accessCode) ==
    SelectSeq(backers, LAMBDA b : b.username = username /\ b.accessCode = accessCode)

(* crowdfundingBackers.addBacker *)
addBacker(username, accessCode, tier) ==
    /\ LET existing == backerByUsernameCode(username, accessCode) IN
       IF Len(existing) > 0
       THEN /\ last' = [op |-> "addBacker", success |-> FALSE,
                        reason |-> "already_exists", id |-> existing[1]._id]
            /\ UNCHANGED backers
       ELSE /\ backers' = Append(backers,
                              [_id |-> Len(backers) + 1,
                               username |-> username,
                               accessCode |-> accessCode,
                               tier |-> tier,
                               usedByUserId |-> NoId,
                               usedAt |-> NoTime,
                               pendingClaimToken |-> NoToken,
                               pendingClaimExpiresAt |-> NoTime])
            /\ last' = [op |-> "addBacker", success |-> TRUE, id |-> Len(backers) + 1]
    /\ UNCHANGED <<now, users, app_state, nextSession, nextClaim,
                   sessionCreate, backerVerify, issued, redeemed>>

(* crowdfundingBackers.verifyBacker: the lookup through index             *)
(* by_username_code, q.eq("username", args.username).eq("accessCode", ...) *)
verifyBackerLookup(username, accessCode) == backerByUsernameCode(username, accessCode)

verifyBackerResult(username, accessCode) ==
    IF ~rateLimitOk(backerVerify[toLowerCase(username)], BACKER_VERIFY_RATE)
    THEN [valid |-> FALSE, reason |-> "rate_limited"]
    ELSE LET found == verifyBackerLookup(username, accessCode) IN
         IF Len(found) = 0 THEN [valid |-> FALSE, reason |-> "invalid_credentials"]
         ELSE IF found[1].usedByUserId # NoId
              THEN [valid |-> FALSE, reason |-> "already_used"]
              ELSE [valid |-> TRUE, backerId |-> found[1]._id, tier |-> found[1].tier]

verifyBacker(username, accessCode) ==
    /\ last' = [op |-> "verifyBacker", username |-> username, accessCode |-> accessCode,
                result |-> verifyBackerResult(username, accessCode)]
    /\ backerVerify' =
          IF rateLimitOk(backerVerify[toLowerCase(username)], BACKER_VERIFY_RATE)
          THEN [backerVerify EXCEPT ![toLowerCase(username)] = @ + 1]
          ELSE backerVerify
    /\ UNCHANGED <<now, users, backers, app_state, nextSession, nextClaim,
                   sessionCreate, issued, redeemed>>

(* The claim step that mints the claim token ensureAppUser asks for.  Its  *)
(* lookup (lower-cased handle and code) and its rate limit decide whether  *)
(* a proof is claimed; a claim of an unconsumed proof stores a new claim   *)
(* token that expires CLAIM_TTL later and overwrites any earlier one.      *)
CLAIM_TTL == 1

claimToken(n) == IF n = 1 THEN "claim-1" ELSE IF n = 2 THEN "claim-2" ELSE "claim-3"

claimAdmissionProof(proofId) ==
    /\ nextClaim < MaxClaims
    /\ proofId \in 1..Len(backers)
    /\ backers[proofId].usedByUserId = NoId
    /\ backers' = [backers EXCEPT ![proofId] =
                      [@ EXCEPT !.pendingClaimToken = claimToken(nextClaim + 1),
                                !.pendingClaimExpiresAt = now + CLAIM_TTL]]
    /\ nextClaim' = nextClaim + 1
    /\ last' = [op |-> "claimAdmissionProof", valid |-> TRUE,
                proofId |-> proofId, tier |-> backers[proofId].tier,
                claimToken |-> claimToken(nextClaim + 1),
                claimExpiry |-> now + CLAIM_TTL]
    /\ UNCHANGED <<now, users, app_state, nextSession, sessionCreate, backerVerify, issued, redeemed>>

----------------------------------------------------------------------------
(* users *)

usersByAuthUserId(authUserId) == SelectSeq(users, LAMBDA u : u.authUserId = authUserId)
usersByEmail(email) == SelectSeq(users, LAMBDA u : u.email = email)

(* The pickLatestByCreation of the users module, applied to the app_state  *)
(* rows ensureAppUser collects.                                            *)
configCrowdfundingActive(configRecords) ==
    IF Len(configRecords) > 0
    THEN pickLatestByCreation(configRecords).crowdfundingActive
    ELSE FALSE

requiresBacker_never(crowdfundingActive) == FALSE
requiresBacker(crowdfundingActive) == crowdfundingActive

claimExpired_never(backer, t) == FALSE
claimExpired(backer, t) == backer.pendingClaimExpiresAt < t

ErrNotAuthenticated == "Not authenticated"
ErrRateLimited == "Too many sign-in attempts"
ErrMultipleUsers == "Multiple user records found for this account"
ErrBackerRequired == "Backer verification is required during crowdfunding"
ErrTokenRequired == "Backer verification token is required"
ErrInvalidBacker == "Invalid backer ID"
ErrAlreadyUsed == "This backer code has already been used"
ErrClaimExpired == "Backer verification expired. Please verify again."
ErrClaimMismatch == "Backer verification does not match. Please verify again."
ErrMultipleEmail == "Multiple user records found for this email"
ErrEmailExists == "An account with this email already exists"
NoError == ""

(* ensureAppUser, the validation of the backer of a new user: the error    *)
(* thrown, or NoError.                                                     *)
backerError_noTokenComparison(crowdfundingBackerId, crowdfundingBackerToken, t) ==
    IF crowdfundingBackerToken = NoToken THEN ErrTokenRequired
    ELSE IF crowdfundingBackerId > Len(backers) THEN ErrInvalidBacker
    ELSE LET backer == backers[crowdfundingBackerId] IN
         IF backer.usedByUserId # NoId THEN ErrAlreadyUsed
         ELSE IF backer.pendingClaimToken = NoToken \/ backer.pendingClaimExpiresAt = NoTime
              THEN ErrClaimExpired
         ELSE IF claimExpired(backer, t) THEN ErrClaimExpired
         ELSE NoError

backerError(crowdfundingBackerId, crowdfundingBackerToken, t) ==
    IF crowdfundingBackerToken = NoToken THEN ErrTokenRequired
    ELSE IF crowdfundingBackerId > Len(backers) THEN ErrInvalidBacker
    ELSE LET backer == backers[crowdfundingBackerId] IN
         IF backer.usedByUserId # NoId THEN ErrAlreadyUsed
         ELSE IF backer.pendingClaimToken = NoToken \/ backer.pendingClaimExpiresAt = NoTime
              THEN ErrClaimExpired
         ELSE IF backer.pendingClaimToken # crowdfundingBackerToken THEN ErrClaimMismatch
         ELSE IF claimExpired(backer, t) THEN ErrClaimExpired
         ELSE NoError

(* ensureAppUser, the defensive email check before the insert *)
emailError_never(authUserId) == NoError
emailError(authUserId) ==
    LET emailMatches == usersByEmail(emailOf(authUserId)) IN
    IF Len(emailMatches) > 1 THEN ErrMultipleEmail
    ELSE IF Len(emailMatches) > 0 /\ emailMatches[1].authUserId # authUserId
         THEN ErrEmailExists
         ELSE NoError

ensureAppUserError_reverifiesExisting(authUserId, crowdfundingBackerId, crowdfundingBackerToken) ==
    IF authUserId = NoAuth THEN ErrNotAuthenticated
    ELSE IF ~rateLimitOk(sessionCreate[authUserId], SESSION_CREATE_RATE) THEN ErrRateLimited
    ELSE LET crowdfundingActive == configCrowdfundingActive(app_state)
             existingUsers == usersByAuthUserId(authUserId)
         IN
         IF Len(existingUsers) > 1 THEN ErrMultipleUsers
         ELSE IF requiresBacker(crowdfundingActive) /\ crowdfundingBackerId = NoId
              THEN ErrBackerRequired
         ELSE IF crowdfundingBackerId # NoId
                 /\ backerError(crowdfundingBackerId, crowdfundingBackerToken, now) # NoError
              THEN backerError(crowdfundingBackerId, crowdfundingBackerToken, now)
         ELSE IF Len(existingUsers) = 1 THEN NoError
         ELSE emailError(authUserId)
ensureAppUserError_skipsProofWhenOff(authUserId, crowdfundingBackerId, crowdfundingBackerToken) ==
    IF authUserId = NoAuth THEN ErrNotAuthenticated
    ELSE IF ~rateLimitOk(sessionCreate[authUserId], SESSION_CREATE_RATE) THEN ErrRateLimited
    ELSE LET crowdfundingActive == configCrowdfundingActive(app_state)
             existingUsers == usersByAuthUserId(authUserId)
         IN
         IF Len(existingUsers) > 1 THEN ErrMultipleUsers
         ELSE IF Len(existingUsers) = 1 THEN NoError
         ELSE IF requiresBacker(crowdfundingActive) /\ crowdfundingBackerId = NoId
              THEN ErrBackerRequired
         ELSE IF crowdfundingBackerId # NoId /\ crowdfundingActive
                 /\ backerError(crowdfundingBackerId, crowdfundingBackerToken, now) # NoError
              THEN backerError(crowdfundingBackerId, crowdfundingBackerToken, now)
         ELSE emailError(authUserId)
(* ensureAppUser: the error the handler throws for this call in this       *)
(* state, or NoError when it returns.                                      *)
ensureAppUserError(authUserId, crowdfundingBackerId, crowdfundingBackerToken) ==
    IF authUserId = NoAuth THEN ErrNotAuthenticated
    ELSE IF ~rateLimitOk(sessionCreate[authUserId], SESSION_CREATE_RATE) THEN ErrRateLimited
    ELSE LET crowdfundingActive == configCrowdfundingActive(app_state)
             existingUsers == usersByAuthUserId(authUserId)
         IN
         IF Len(existingUsers) > 1 THEN ErrMultipleUsers
         ELSE IF Len(existingUsers) = 1 THEN NoError
         ELSE IF requiresBacker(crowdfundingActive) /\ crowdfundingBackerId = NoId
              THEN ErrBackerRequired
         ELSE IF crowdfundingBackerId # NoId
                 /\ backerError(crowdfundingBackerId, crowdfundingBackerToken, now) # NoError
              THEN backerError(crowdfundingBackerId, crowdfundingBackerToken, now)
         ELSE emailError(authUserId)

(* ctx.db.patch(existingUser._id, {activeSessionId, sessionStartedAt}) *)
patchSession_firstWriterWins(user, sessionId, t) ==
    IF user.activeSessionId # NoSession THEN user
    ELSE [user EXCEPT !.activeSessionId = sessionId, !.sessionStartedAt = t]
patchSession_keepsSessionId(user, sessionId, t) == [user EXCEPT !.sessionStartedAt = t]
patchSession(user, sessionId, t) ==
    [user EXCEPT !.activeSessionId = sessionId, !.sessionStartedAt = t]

(* ctx.db.insert("users", {...}) *)
newUser(userId, authUserId, sessionId, t, crowdfundingBackerId) ==
    [_id |-> userId,
     authUserId |-> authUserId,
     email |-> emailOf(authUserId),
     createdAt |-> t,
     activeSessionId |-> sessionId,
     sessionStartedAt |-> t,
     crowdfundingBackerId |-> crowdfundingBackerId]

(* ctx.db.patch(args.crowdfundingBackerId, {usedByUserId, usedAt, ...}) *)
markBackerUsed_keepsClaim(backer, userId, t) ==
    [backer EXCEPT !.usedByUserId = userId, !.usedAt = t]
markBackerUsed_keepsUnused(backer, userId, t) ==
    [backer EXCEPT !.pendingClaimToken = NoToken, !.pendingClaimExpiresAt = NoTime]
markBackerUsed(backer, userId, t) ==
    [backer EXCEPT !.usedByUserId = userId,
                   !.usedAt = t,
                   !.pendingClaimToken = NoToken,
                   !.pendingClaimExpiresAt = NoTime]

ensureAppUser(authUserId, crowdfundingBackerId, crowdfundingBackerToken) ==
    /\ LET err == ensureAppUserError(authUserId, crowdfundingBackerId,
                                     crowdfundingBackerToken)
           existingUsers == IF authUserId = NoAuth THEN <<>>
                            ELSE usersByAuthUserId(authUserId)
           sessionId == randomUUID(nextSession + 1)
           call == [op |-> "ensureAppUser",
                    authUserId |-> authUserId,
                    crowdfundingBackerId |-> crowdfundingBackerId,
                    crowdfundingBackerToken |-> crowdfundingBackerToken,
                    existed |-> Len(existingUsers) > 0,
                    rateOk |-> authUserId # NoAuth
                               /\ rateLimitOk(sessionCreate[authUserId], SESSION_CREATE_RATE),
                    usersBefore |-> users,
                    backersBefore |-> backers,
                    at |-> now]
       IN
       IF err # NoError
       THEN /\ last' = call @@ [ok |-> FALSE, error |-> err,
                                retryAfter |-> IF err = ErrRateLimited THEN 1 ELSE 0]
            /\ UNCHANGED <<users, backers, nextSession, sessionCreate, issued, redeemed>>
       ELSE /\ IF Len(existingUsers) = 1
               THEN /\ users' = [users EXCEPT ![existingUsers[1]._id] =
                                    patchSession(@, sessionId, now)]
                    /\ UNCHANGED <<backers, redeemed>>
               ELSE /\ users' = Append(users,
                                   newUser(Len(users) + 1, authUserId, sessionId, now,
                                           crowdfundingBackerId))
                    /\ backers' =
                          IF crowdfundingBackerId # NoId
                          THEN [backers EXCEPT ![crowdfundingBackerId] =
                                   markBackerUsed(@, Len(users) + 1, now)]
                          ELSE backers
                    /\ redeemed' =
                          IF crowdfundingBackerId # NoId
                          THEN redeemed \cup {<<crowdfundingBackerId, crowdfundingBackerToken>>}
                          ELSE redeemed
            /\ nextSession' = nextSession + 1
            /\ sessionCreate' = [sessionCreate EXCEPT ![authUserId] = @ + 1]
            /\ LET appUser == IF Len(existingUsers) = 1
                              THEN users'[existingUsers[1]._id]
                              ELSE users'[Len(users) + 1]
                   resolvedSessionId == IF appUser.activeSessionId # NoSession
                                        THEN appUser.activeSessionId ELSE sessionId
               IN /\ issued' = [issued EXCEPT ![authUserId] = Append(@, resolvedSessionId)]
                  /\ last' = call @@ [ok |-> TRUE, userId |-> appUser._id,
                                      email |-> appUser.email,
                                      sessionId |-> resolvedSessionId]
    /\ UNCHANGED <<now, app_state, nextClaim, backerVerify>>

(* ensureAppUser throws after its writes: the insert and the backer patch  *)
(* are followed by ctx.db.get and 'Failed to create user record'. The      *)
(* handler is one mutation, so what it wrote is discarded with the throw.  *)
ErrCreateFailed == "Failed to create user record"

writesAfterAbort_keepsBackerPatch(authUserId, crowdfundingBackerId, t) ==
    [users |-> users,
     backers |-> IF crowdfundingBackerId # NoId
                 THEN [backers EXCEPT ![crowdfundingBackerId] =
                          markBackerUsed(@, Len(users) + 1, t)]
                 ELSE backers]
writesAfterAbort(authUserId, crowdfundingBackerId, t) ==
    [users |-> users, backers |-> backers]

ensureAppUserAborts(authUserId, crowdfundingBackerId, crowdfundingBackerToken) ==
    /\ ensureAppUserError(authUserId, crowdfundingBackerId, crowdfundingBackerToken) = NoError
    /\ Len(usersByAuthUserId(authUserId)) = 0
    /\ last' = [op |-> "ensureAppUser",
                authUserId |-> authUserId,
                crowdfundingBackerId |-> crowdfundingBackerId,
                crowdfundingBackerToken |-> crowdfundingBackerToken,
                existed |-> FALSE,
                rateOk |-> TRUE,
                usersBefore |-> users,
                backersBefore |-> backers,
                at |-> now,
                ok |-> FALSE, error |-> ErrCreateFailed, retryAfter |-> 0]
    /\ users' = writesAfterAbort(authUserId, crowdfundingBackerId, now).users
    /\ backers' = writesAfterAbort(authUserId, crowdfundingBackerId, now).backers
    /\ UNCHANGED <<now, app_state, nextSession, nextClaim, sessionCreate, backerVerify,
                   issued, redeemed>>

(* users.validateSession *)
validateSessionResult(authUserId, sessionId) ==
    IF ~SESSION_ID_REGEX(sessionId) THEN [valid |-> FALSE, reason |-> "invalid_session_id"]
    ELSE IF authUserId = NoAuth THEN [valid |-> FALSE, reason |-> "not_authenticated"]
    ELSE LET appUsers == usersByAuthUserId(authUserId) IN
         IF Len(appUsers) = 0 THEN [valid |-> FALSE, reason |-> "no_app_user"]
         ELSE IF Len(appUsers) > 1 THEN [valid |-> FALSE, reason |-> "throws: not unique"]
         ELSE IF appUsers[1].activeSessionId = sessionId THEN [valid |-> TRUE]
         ELSE [valid |-> FALSE, reason |-> "session_invalidated"]

validateSession(authUserId, sessionId) ==
    /\ last' = [op |-> "validateSession", authUserId |-> authUserId,
                sessionId |-> sessionId,
                result |-> validateSessionResult(authUserId, sessionId)]
    /\ UNCHANGED <<now, users, backers, app_state, nextSession, nextClaim,
                   sessionCreate, backerVerify, issued, redeemed>>

(* Time passes: ten minutes later every rate-limit window has closed. *)
Tick ==
    /\ now < MaxTime
    /\ now' = now + 1
    /\ sessionCreate' = [a \in Identities |-> 0]
    /\ backerVerify' = [k \in HandleKeys |-> 0]
    /\ last' = [op |-> "tick"]
    /\ UNCHANGED <<users, backers, app_state, nextSession, nextClaim, issued, redeemed>>

----------------------------------------------------------------------------
(* The inputs the calls are tried with *)

notAUuid == <<"n", "o", "t", "-", "a", "-", "u", "u", "i", "d">>
deadbeef == <<"d", "e", "a", "d", "b", "e", "e", "f">> \o <<"-">> \o Zeros(4)
                \o <<"-", "4">> \o Zeros(3) \o <<"-", "a">> \o Zeros(3) \o <<"-">> \o Zeros(12)
DEADBEEF == [i \in 1..Len(deadbeef) |-> ToUpperChar(deadbeef[i])]

MalformedSessionIds ==
    { NoSession,
      notAUuid,
      [randomUUID(1) EXCEPT ![15] = "1"],      \* a version 1 UUID
      [randomUUID(1) EXCEPT ![20] = "c"],      \* a wrong variant
      [randomUUID(1) EXCEPT ![1] = "g"],       \* not a hex digit
      [randomUUID(1) EXCEPT ![9] = "0"],       \* a missing dash
      randomUUID(1) \o <<"0">>,                \* one character too long
      <<"x">> \o randomUUID(1) }               \* a UUID after a prefix

SessionIds ==
    {randomUUID(n) : n \in 1..MaxSessions} \cup {deadbeef, DEADBEEF} \cup MalformedSessionIds

Callers == Identities \cup {NoAuth}
BackerIds == {NoId, 1, 2}
SignUpCallers == {"auth1", "auth2"}
BackerTokens == {claimToken(n) : n \in 1..MaxClaims} \cup {NoToken, "forged"}

----------------------------------------------------------------------------
(* Duplicate-tab handshake of useSession.  The tabs are pages of one       *)
(* browser that loaded the same session id from localStorage.  A tab id is *)
(* the crypto.randomUUID() of the page, cut to its first two characters.   *)

TabIds == {<<"0", "a">>, <<"0", "b">>, <<"1", "a">>}

(* The pages that are opened when the server takes part *)
ClientTabs == {<<"0", "a">>, <<"0", "b">>}

charRank(c) ==
    CASE c = "-" -> 0 [] c = "0" -> 1 [] c = "1" -> 2 [] c = "2" -> 3 [] c = "3" -> 4
      [] c = "4" -> 5 [] c = "5" -> 6 [] c = "6" -> 7 [] c = "7" -> 8 [] c = "8" -> 9
      [] c = "9" -> 10 [] c = "a" -> 11 [] c = "b" -> 12 [] c = "c" -> 13
      [] c = "d" -> 14 [] c = "e" -> 15 [] c = "f" -> 16

(* a.localeCompare(b): negative when a sorts before b, zero when equal *)
RECURSIVE compareFrom(_, _, _)
compareFrom(a, b, i) ==
    IF i > Len(a) /\ i > Len(b) THEN 0
    ELSE IF i > Len(a) THEN -1
    ELSE IF i > Len(b) THEN 1
    ELSE IF charRank(a[i]) < charRank(b[i]) THEN -1
    ELSE IF charRank(a[i]) > charRank(b[i]) THEN 1
    ELSE compareFrom(a, b, i + 1)

localeCompare(a, b) == compareFrom(a, b, 1)

(* isDuplicateFor of the tab with the given tabOpenedAt.current and        *)
(* tabId.current                                                           *)
isDuplicateFor_tieFlagsBoth(currentOpenedAt, currentTabId, otherOpenedAt, otherTabId) ==
    otherOpenedAt <= currentOpenedAt
isDuplicateFor_tabIdOnly(currentOpenedAt, currentTabId, otherOpenedAt, otherTabId) ==
    localeCompare(otherTabId, currentTabId) < 0
isDuplicateFor_anyOtherTab(currentOpenedAt, currentTabId, otherOpenedAt, otherTabId) == TRUE
isDuplicateFor(currentOpenedAt, currentTabId, otherOpenedAt, otherTabId) ==
    IF otherOpenedAt < currentOpenedAt THEN TRUE
    ELSE IF otherOpenedAt > currentOpenedAt THEN FALSE
    ELSE localeCompare(otherTabId, currentTabId) < 0

(* channel.postMessage: one copy for every other tab whose channel is open *)
postMessage(sender, type) ==
    {[type |-> type, tabId |-> sender, openedAt |-> tabs[sender].tabOpenedAt, to |-> r] :
        r \in {r \in TabIds \ {sender} : tabs[r].listening}}

(* A well-formed session id that an earlier visit left in localStorage *)
staleSession == randomUUID(9)

StoredSessions == {NoSession, staleSession}

TabInit ==
    /\ tabs = [t \in TabIds |->
                  [mounted |-> FALSE, closed |-> FALSE, tabOpenedAt |-> NoTime,
                   listening |-> FALSE, checkTimeout |-> FALSE,
                   isDuplicateTab |-> FALSE, heard |-> {}, flaggedBy |-> {},
                   sessionId |-> NoSession, sessionValidation |-> "undefined",
                   kickedFlag |-> FALSE, ensure |-> "idle", ensureResult |-> NoSession,
                   kickedSince |-> FALSE]]
    /\ channel = {}
    /\ tabClock = 1
    /\ localStorage \in StoredSessions
    /\ login = NoAuth

(* What useSession derives from its state on every render *)
isSessionIdInvalid(tab) == tab.sessionValidation = "invalid_session_id"

effectiveSessionId(tab) == IF isSessionIdInvalid(tab) THEN NoSession ELSE tab.sessionId

wasKicked(tab) == tab.kickedFlag \/ tab.sessionValidation = "session_invalidated"

returnedIsDuplicateTab(tab) ==
    IF effectiveSessionId(tab) # NoSession THEN tab.isDuplicateTab ELSE FALSE

(* The effects that run after a render in which the tab went from old to   *)
(* new: the BroadcastChannel effect of useSession (dependency              *)
(* effectiveSessionId) and the ensureAppUser effect of App (dependencies   *)
(* isAuthenticated, sessionId, wasKicked, ensureAttempt).  A tab has at    *)
(* most one ensureAppUser request outstanding.                             *)
channelEffect(old, new) ==
    IF old.mounted /\ effectiveSessionId(old) = effectiveSessionId(new) THEN new
    ELSE IF effectiveSessionId(new) = NoSession
    THEN [new EXCEPT !.listening = FALSE, !.checkTimeout = FALSE]
    ELSE [new EXCEPT !.listening = TRUE, !.checkTimeout = TRUE,
                     !.tabOpenedAt = IF @ = NoTime THEN tabClock ELSE @]

ensureEffect(old, new, wasAuthenticated, isAuthenticated, tryAgain) ==
    LET depsChanged == \/ ~old.mounted
                       \/ wasAuthenticated # isAuthenticated
                       \/ effectiveSessionId(old) # effectiveSessionId(new)
                       \/ wasKicked(old) # wasKicked(new)
                       \/ tryAgain
        wanted == isAuthenticated /\ effectiveSessionId(new) = NoSession /\ ~wasKicked(new)
    IN IF ~depsChanged THEN new
       ELSE [new EXCEPT !.ensureResult = NoSession,
                        !.ensure = IF wanted THEN "calling"
                                   ELSE IF @ \in {"calling", "abandoned"} THEN "abandoned"
                                   ELSE IF @ \in {"rejected", "failed"} THEN "failed"
                                   ELSE "idle"]

useEffects(old, new, wasAuthenticated, isAuthenticated, tryAgain) ==
    ensureEffect(old, channelEffect(old, new), wasAuthenticated, isAuthenticated, tryAgain)

(* safeLocalRemove(SESSION_KEY) by the two storage effects of useSession *)
removesSession(old, new) ==
    \/ /\ isSessionIdInvalid(new)
       /\ ~old.mounted \/ ~isSessionIdInvalid(old)
    \/ /\ wasKicked(new) /\ effectiveSessionId(new) # NoSession
       /\ \/ ~old.mounted
          \/ wasKicked(old) # wasKicked(new)
          \/ effectiveSessionId(old) # effectiveSessionId(new)

(* The cleanup of the BroadcastChannel effect closes the channel: what was *)
(* posted to it is never delivered.                                        *)
closesChannel(old, new) ==
    old.listening /\ effectiveSessionId(old) # effectiveSessionId(new)

(* One render of the pages: the handlers left the tabs as newTabs, the     *)
(* login as newLogin, the storage entry as stored; then the effects run.   *)
render(newTabs, newLogin, stored, tryAgainTab) ==
    /\ tabs' = [t \in TabIds |->
                   IF newTabs[t].mounted
                   THEN useEffects(tabs[t], newTabs[t], login # NoAuth, newLogin # NoAuth,
                                   t = tryAgainTab)
                   ELSE newTabs[t]]
    /\ login' = newLogin
    /\ localStorage' =
          IF \E t \in TabIds : newTabs[t].mounted /\ removesSession(tabs[t], newTabs[t])
          THEN NoSession ELSE stored
    /\ channel' = {m \in channel :
                      ~(newTabs[m.to].mounted /\ closesChannel(tabs[m.to], newTabs[m.to]))}
    /\ UNCHANGED tabClock

(* The page loads: sessionId is read from localStorage, the effects run.   *)
openTab(t) ==
    /\ ~tabs[t].mounted /\ ~tabs[t].closed
    /\ render([tabs EXCEPT ![t] = [@ EXCEPT !.mounted = TRUE, !.sessionId = localStorage]],
              login, localStorage, NoSession)

(* The timer set by setTimeout(..., 100) fires *)
checkTimeoutFires(t) ==
    /\ tabs[t].checkTimeout /\ tabs[t].listening
    /\ channel' = channel \cup postMessage(t, "TAB_CHECK")
    /\ tabs' = [tabs EXCEPT ![t].checkTimeout = FALSE]
    /\ UNCHANGED <<tabClock, localStorage, login>>

(* channel.onmessage of the tab the message is for *)
onmessage(m) ==
    /\ m \in channel
    /\ tabs[m.to].listening
    /\ channel' = (channel \ {m}) \cup
                     (IF m.type = "TAB_CHECK" /\ m.tabId # m.to
                      THEN postMessage(m.to, "TAB_EXISTS") ELSE {})
    /\ tabs' = [tabs EXCEPT ![m.to] =
                   IF m.type = "TAB_EXISTS" /\ m.tabId # m.to
                   THEN [@ EXCEPT !.isDuplicateTab =
                                     IF isDuplicateFor(tabs[m.to].tabOpenedAt, m.to,
                                                       m.openedAt, m.tabId)
                                     THEN TRUE ELSE @,
                                  !.heard = @ \cup {m.tabId},
                                  !.flaggedBy =
                                     IF isDuplicateFor(tabs[m.to].tabOpenedAt, m.to,
                                                       m.openedAt, m.tabId)
                                     THEN @ \cup {m.tabId} ELSE @]
                   ELSE @]
    /\ UNCHANGED <<tabClock, localStorage, login>>

(* The page is closed: the cleanup clears the timer and closes the         *)
(* channel, and what was posted to it is never delivered.  A request that  *)
(* was sent still reaches the server.                                      *)
closeTab(t) ==
    /\ tabs[t].mounted
    /\ tabs' = [tabs EXCEPT ![t] =
                   [@ EXCEPT !.mounted = FALSE, !.closed = TRUE,
                             !.listening = FALSE, !.checkTimeout = FALSE,
                             !.ensureResult = NoSession,
                             !.ensure = IF @ \in {"calling", "abandoned"}
                                        THEN "abandoned" ELSE "idle"]]
    /\ channel' = {m \in channel : m.to # t}
    /\ UNCHANGED <<tabClock, localStorage, login>>

tabTick ==
    /\ tabClock < MaxTabTime
    /\ tabClock' = tabClock + 1
    /\ UNCHANGED <<tabs, channel, localStorage, login>>

(* The reactive validateSession query of a tab delivers a new result.  It  *)
(* is skipped (undefined) unless isAuthenticated and sessionId are set.    *)
validationTag(result) == IF result.valid THEN "valid" ELSE result.reason

validationArrives(t) ==
    LET tag == validationTag(validateSessionResult(login, tabs[t].sessionId)) IN
    /\ tabs[t].mounted
    /\ login # NoAuth /\ tabs[t].sessionId # NoSession
    /\ tag # tabs[t].sessionValidation
    /\ render([tabs EXCEPT ![t] =
                  [@ EXCEPT !.sessionValidation = tag,
                            !.kickedSince = @ \/ tag = "session_invalidated"]],
              login, localStorage, NoSession)

(* useConvexAuth: the identity provider reports a login, or stops          *)
(* reporting one; isAuthenticated changes in every tab of the browser and  *)
(* a skipped query has no result.                                          *)
skipValidation(ts) ==
    [t \in TabIds |-> [ts[t] EXCEPT !.sessionValidation = "undefined"]]

loginBegins(a) ==
    /\ login = NoAuth
    /\ render(tabs, a, localStorage, NoSession)

loginEnds ==
    /\ login # NoAuth
    /\ render(skipValidation(tabs), NoAuth, localStorage, NoSession)

(* setSessionId, clearSession and clearKicked of useSession *)
setSessionId(tab, id) ==
    [tab EXCEPT !.sessionId = id, !.kickedFlag = FALSE, !.isDuplicateTab = FALSE,
                !.sessionValidation = "undefined"]

clearSession(tab) ==
    [tab EXCEPT !.sessionId = NoSession, !.kickedFlag = FALSE, !.isDuplicateTab = FALSE,
                !.sessionValidation = "undefined"]

clearKickedState(tab) ==
    [tab EXCEPT !.kickedFlag = FALSE, !.sessionId = NoSession, !.isDuplicateTab = FALSE,
                !.sessionValidation = "undefined"]

(* Which screen App renders for a tab *)
screen(tab) ==
    IF returnedIsDuplicateTab(tab) THEN "Duplicate Tab"
    ELSE IF wasKicked(tab) THEN "Session Ended"
    ELSE IF tab.ensure = "failed" /\ login # NoAuth /\ effectiveSessionId(tab) = NoSession
    THEN "Sign-in Error"
    ELSE "app"

(* The request of the ensureAppUser effect reaches the server *)
ensureAppUserRequest(t) ==
    /\ tabs[t].ensure \in {"calling", "abandoned"}
    /\ nextSession < MaxSessions
    /\ ensureAppUser(login, NoId, NoToken)
    /\ tabs' = [tabs EXCEPT ![t] =
                   IF @.ensure = "abandoned" THEN [@ EXCEPT !.ensure = "idle"]
                   ELSE IF last'.ok
                   THEN [@ EXCEPT !.ensure = "resolved", !.ensureResult = last'.sessionId]
                   ELSE [@ EXCEPT !.ensure = "rejected"]]
    /\ UNCHANGED <<channel, tabClock, localStorage, login>>

(* The promise of the ensureAppUser effect settles: then or catch *)
ensureAppUserSettles(t) ==
    /\ tabs[t].mounted
    /\ tabs[t].ensure \in {"resolved", "rejected"}
    /\ IF tabs[t].ensure = "resolved"
       THEN render([tabs EXCEPT ![t] =
                       [setSessionId(@, tabs[t].ensureResult)
                           EXCEPT !.ensure = "idle", !.ensureResult = NoSession]],
                   login, tabs[t].ensureResult, NoSession)
       ELSE render([tabs EXCEPT ![t].ensure = "failed"], login, localStorage, NoSession)

(* handleSignOut, from the app or from the sign-in error screen *)
handleSignOut(t) ==
    /\ tabs[t].mounted
    /\ login # NoAuth
    /\ \/ screen(tabs[t]) = "Sign-in Error"
       \/ screen(tabs[t]) = "app" /\ tabs[t].sessionValidation = "valid"
    /\ render([skipValidation(tabs) EXCEPT ![t] =
                  [clearSession(@) EXCEPT !.ensure = "idle", !.ensureResult = NoSession]],
              NoAuth, NoSession, NoSession)

(* "Sign In Again" on the session-ended screen *)
clearKicked(t) ==
    /\ tabs[t].mounted
    /\ screen(tabs[t]) = "Session Ended"
    /\ render([tabs EXCEPT ![t] = [clearKickedState(@) EXCEPT !.kickedSince = FALSE]],
              login, localStorage, NoSession)

(* Before any page is loaded, the entry is set by hand to something that   *)
(* is no session id                                                        *)
storageEdited ==
    /\ localStorage # notAUuid
    /\ \A t \in TabIds : ~tabs[t].mounted /\ ~tabs[t].closed
    /\ localStorage' = notAUuid
    /\ UNCHANGED <<tabs, channel, tabClock, login>>

Messages ==
    [type : {"TAB_CHECK", "TAB_EXISTS"}, tabId : TabIds, openedAt : 1..MaxTabTime,
     to : TabIds]

OpenTab == (\E t \in TabIds : openTab(t)) /\ UNCHANGED <<serverVars, catalogVars, uploadVars, appVars>>
OpenClientTab == (\E t \in ClientTabs : openTab(t)) /\ UNCHANGED <<serverVars, catalogVars, uploadVars, appVars>>
CheckTimeoutFires == (\E t \in TabIds : checkTimeoutFires(t)) /\ UNCHANGED <<serverVars, catalogVars, uploadVars, appVars>>
OnMessage == (\E m \in channel : onmessage(m)) /\ UNCHANGED <<serverVars, catalogVars, uploadVars, appVars>>
CloseTab == (\E t \in TabIds : closeTab(t)) /\ UNCHANGED <<serverVars, catalogVars, uploadVars, appVars>>
TabTimePasses == tabTick /\ UNCHANGED <<serverVars, catalogVars, uploadVars, appVars>>
ValidationArrives == (\E t \in TabIds : validationArrives(t)) /\ UNCHANGED <<serverVars, catalogVars, uploadVars, appVars>>
LoginBegins == loginBegins("auth1") /\ UNCHANGED <<serverVars, catalogVars, uploadVars, appVars>>
LoginEnds == loginEnds /\ UNCHANGED <<serverVars, catalogVars, uploadVars, appVars>>
EnsureAppUserRequest ==
    (\E t \in TabIds : ensureAppUserRequest(t)) /\ UNCHANGED <<catalogVars, uploadVars, appVars>>
EnsureAppUserSettles == (\E t \in TabIds : ensureAppUserSettles(t)) /\ UNCHANGED <<serverVars, catalogVars, uploadVars, appVars>>
HandleSignOut == (\E t \in TabIds : handleSignOut(t)) /\ UNCHANGED <<serverVars, catalogVars, uploadVars, appVars>>
ClearKicked == (\E t \in TabIds : clearKicked(t)) /\ UNCHANGED <<serverVars, catalogVars, uploadVars, appVars>>
StorageEdited == storageEdited /\ UNCHANGED <<serverVars, catalogVars, uploadVars, appVars>>

----------------------------------------------------------------------------
(* pricingCatalog: the snapshot of the Stripe products and prices *)

metadataLookup == "vector-projector"

NoCursor == ""

prod_A == [productId |-> "prod_A", app |-> metadataLookup]
prod_B == [productId |-> "prod_B", app |-> "another-app"]

price_1 == [priceId |-> "price_1", productId |-> "prod_A", app |-> "",
            tier |-> "personal", audience |-> "public", interval |-> "month",
            active |-> TRUE]
price_2 == [priceId |-> "price_2", productId |-> "prod_B", app |-> metadataLookup,
            tier |-> "personal", audience |-> "public", interval |-> "month",
            active |-> TRUE]
price_3 == [priceId |-> "price_3", productId |-> "prod_A", app |-> "",
            tier |-> "commercial", audience |-> "backer", interval |-> "year",
            active |-> TRUE]

(* The order in which stripe.products.list and stripe.prices.list return *)
productOrder == <<prod_A, prod_B>>
priceOrder == <<price_1, price_2, price_3>>

StripeAccounts ==
    [products : {{prod_B}, {prod_A, prod_B}},
     prices : {{price_1, price_3}, {price_1, price_2, price_3}, {price_2}}]

listed(order, present) == SelectSeq(order, LAMBDA x : x \in present)

idOf(x) == IF "priceId" \in DOMAIN x THEN x.priceId ELSE x.productId

positionOf(list, id) ==
    IF \E i \in 1..Len(list) : idOf(list[i]) = id
    THEN CHOOSE i \in 1..Len(list) : idOf(list[i]) = id
    ELSE 0

(* One page of a list call: limit items after starting_after *)
cursorKnown(list, startingAfter) ==
    startingAfter = NoCursor \/ positionOf(list, startingAfter) > 0

listPage(list, startingAfter) ==
    LET from == IF startingAfter = NoCursor THEN 0 ELSE positionOf(list, startingAfter)
        upto == IF from + MaxPage < Len(list) THEN from + MaxPage ELSE Len(list)
    IN [data |-> SubSeq(list, from + 1, upto), has_more |-> upto < Len(list)]

matchingProducts(allProducts) ==
    SelectSeq(allProducts, LAMBDA p : p.app = metadataLookup)

matchingPrices(allProducts, allPrices) ==
    LET matchingProductIds ==
            {matchingProducts(allProducts)[i].productId :
                i \in 1..Len(matchingProducts(allProducts))}
    IN SelectSeq(allPrices,
                 LAMBDA p : p.app = metadataLookup \/ p.productId \in matchingProductIds)

catalogRow ==
    IF Len(pricing_catalog) = 0 THEN [found |-> FALSE]
    ELSE [found |-> TRUE] @@ pricing_catalog[1]

(* writeCatalog *)
writeCatalog(rows, products, prices, t) ==
    IF Len(rows) > 0
    THEN [rows EXCEPT ![1] = [@ EXCEPT !.products = products,
                                       !.prices = prices,
                                       !.lastSyncedAt = t,
                                       !.lastSyncError = NoError,
                                       !.lastSyncFailedAt = NoTime]]
    ELSE <<[products |-> products, prices |-> prices, lastSyncedAt |-> t,
            lastSyncError |-> NoError, lastSyncFailedAt |-> NoTime]>>

(* recordSyncError *)
recordSyncError_stampsSync(rows, error, t) ==
    IF Len(rows) > 0
    THEN [rows EXCEPT ![1] = [@ EXCEPT !.lastSyncError = error, !.lastSyncFailedAt = t,
                                       !.lastSyncedAt = t]]
    ELSE <<[products |-> <<>>, prices |-> <<>>, lastSyncedAt |-> t,
            lastSyncError |-> error, lastSyncFailedAt |-> t]>>
recordSyncError(rows, error, t) ==
    IF Len(rows) > 0
    THEN [rows EXCEPT ![1] = [@ EXCEPT !.lastSyncError = error, !.lastSyncFailedAt = t]]
    ELSE <<[products |-> <<>>, prices |-> <<>>, lastSyncedAt |-> NoTime,
            lastSyncError |-> error, lastSyncFailedAt |-> t]>>

idleSync == [pc |-> "idle", caller |-> NoAuth, allProducts |-> <<>>, allPrices |-> <<>>,
             startingAfter |-> NoCursor, before |-> <<>>]

syncReturn(caller, success, threw, before) ==
    [op |-> "pricingCatalog.sync", caller |-> caller, success |-> success,
     threw |-> threw, before |-> before, at |-> now]

(* sync is called, by any client: the handler never reads ctx.auth. The    *)
(* environment variables are read before the try.                         *)
syncBegins(caller, envSet) ==
    /\ syncRun.pc = "idle"
    /\ IF envSet
       THEN /\ syncRun' = [idleSync EXCEPT !.pc = "products", !.caller = caller,
                                            !.before = pricing_catalog]
            /\ UNCHANGED last
       ELSE /\ last' = syncReturn(caller, FALSE, TRUE, pricing_catalog)
            /\ UNCHANGED syncRun
    /\ UNCHANGED <<pricing_catalog, stripe>>

(* The catch block of sync *)
syncFails ==
    /\ pricing_catalog' = recordSyncError(pricing_catalog, "Stripe error", now)
    /\ syncRun' = idleSync
    /\ last' = syncReturn(syncRun.caller, FALSE, FALSE, syncRun.before)

(* The next await of sync returns or raises: a page of products, a page of *)
(* prices, and after the last page of prices the writeCatalog mutation.    *)
syncStep(raises) ==
    /\ syncRun.pc \in {"products", "prices"}
    /\ LET list == IF syncRun.pc = "products"
                   THEN listed(productOrder, stripe.products)
                   ELSE listed(priceOrder, stripe.prices)
           page == listPage(list, syncRun.startingAfter)
           cursor == IF Len(page.data) > 0 THEN idOf(page.data[Len(page.data)])
                     ELSE syncRun.startingAfter
       IN IF raises \/ ~cursorKnown(list, syncRun.startingAfter)
          THEN syncFails
          ELSE IF syncRun.pc = "products"
          THEN /\ syncRun' = [syncRun EXCEPT
                                 !.allProducts = @ \o page.data,
                                 !.pc = IF page.has_more THEN "products" ELSE "prices",
                                 !.startingAfter = IF page.has_more THEN cursor ELSE NoCursor]
               /\ UNCHANGED <<pricing_catalog, last>>
          ELSE IF page.has_more
          THEN /\ syncRun' = [syncRun EXCEPT !.allPrices = @ \o page.data,
                                             !.startingAfter = cursor]
               /\ UNCHANGED <<pricing_catalog, last>>
          ELSE /\ pricing_catalog' =
                     writeCatalog(pricing_catalog,
                                  matchingProducts(syncRun.allProducts),
                                  matchingPrices(syncRun.allProducts,
                                                 syncRun.allPrices \o page.data),
                                  now)
               /\ syncRun' = idleSync
               /\ last' = syncReturn(syncRun.caller, TRUE, FALSE, syncRun.before)
    /\ UNCHANGED stripe

(* Products and prices are created and archived in the Stripe dashboard *)
stripeChanges(account) ==
    /\ account # stripe
    /\ stripe' = account
    /\ UNCHANGED <<pricing_catalog, syncRun>>

(* billing.createCheckoutSession; backerAccessGrantedAt is what            *)
(* users.getByAuthUserId returns for the caller                            *)
CheckoutRequests ==
    {[tier |-> "personal", interval |-> "month", audience |-> "public"],
     [tier |-> "personal", interval |-> "year", audience |-> "public"],
     [tier |-> "commercial", interval |-> "year", audience |-> "backer"]}

checkoutMatches_firstOfMany(prices, tier, interval, audience) ==
    LET all == SelectSeq(prices,
                  LAMBDA p : /\ p.tier = tier /\ p.audience = audience
                             /\ p.interval = interval /\ p.active)
    IN IF Len(all) > 1 THEN <<all[1]>> ELSE all
checkoutMatches(prices, tier, interval, audience) ==
    SelectSeq(prices,
              LAMBDA p : /\ p.tier = tier /\ p.audience = audience
                         /\ p.interval = interval /\ p.active)

ErrBackerPricing == "Backer pricing is only available to verified backers"
ErrNoCatalog == "Pricing catalog not available. Please contact support."
ErrNoPrice == "No price found"
ErrMultiplePrices == "Multiple prices found. Please contact support."

checkoutError(authUserId, backerAccessGranted, tier, interval, audience) ==
    IF authUserId = NoAuth THEN ErrNotAuthenticated
    ELSE IF audience = "backer" /\ ~backerAccessGranted THEN ErrBackerPricing
    ELSE IF ~catalogRow.found THEN ErrNoCatalog
    ELSE IF Len(catalogRow.prices) = 0 THEN ErrNoCatalog
    ELSE LET matching == checkoutMatches(catalogRow.prices, tier, interval, audience) IN
         IF Len(matching) = 0 THEN ErrNoPrice
         ELSE IF Len(matching) > 1 THEN ErrMultiplePrices
         ELSE NoError

createCheckoutSession(authUserId, backerAccessGranted, tier, interval, audience) ==
    LET err == checkoutError(authUserId, backerAccessGranted, tier, interval, audience)
        call == [op |-> "createCheckoutSession", authUserId |-> authUserId,
                 backerAccessGranted |-> backerAccessGranted,
                 tier |-> tier, interval |-> interval, audience |-> audience,
                 catalog |-> pricing_catalog, error |-> err]
    IN /\ last' = IF err # NoError THEN call @@ [priceId |-> ""]
                  ELSE call @@ [priceId |->
                          checkoutMatches(catalogRow.prices, tier, interval,
                                          audience)[1].priceId]
       /\ UNCHANGED catalogVars

----------------------------------------------------------------------------
(* uploads: the pending-upload tickets, and files.commitFile *)

PENDING_UPLOAD_TTL == 6
FILE_UPLOAD_CAPACITY == 5

Uploaders == {"auth1", "auth2"}
AdminEmails == {emailOf("auth2")}
BlobIds == 1..MaxBlobs

hasPendingUpload(authUserId) ==
    \E p \in pending_uploads : p.authUserId = authUserId

isExpired_never(record, t) == FALSE
isExpired(record, t) == record.expiresAt < t

expiredUploads(t) == {p \in pending_uploads : isExpired(p, t)}

(* registerPendingUpload *)
registerPendingUpload(blobId, authUserId, t) ==
    (pending_uploads \ expiredUploads(t))
        \cup {[blobId |-> blobId, authUserId |-> authUserId, createdAt |-> t,
               expiresAt |-> t + PENDING_UPLOAD_TTL]}

(* consumePendingUpload: what it returns and the table it leaves *)
consumePendingUpload_keepsRecord(blobId, authUserId, t) ==
    LET found == {p \in pending_uploads : p.blobId = blobId} IN
    IF found = {}
    THEN [valid |-> FALSE, reason |-> "Upload not found or expired",
          table |-> pending_uploads]
    ELSE LET pending == CHOOSE p \in found : TRUE IN
         IF pending.authUserId # authUserId
         THEN [valid |-> FALSE, reason |-> "Upload belongs to another user",
               table |-> pending_uploads]
         ELSE IF isExpired(pending, t)
         THEN [valid |-> FALSE, reason |-> "Upload expired",
               table |-> pending_uploads \ {pending}]
         ELSE [valid |-> TRUE, reason |-> NoError, table |-> pending_uploads]
consumePendingUpload(blobId, authUserId, t) ==
    LET found == {p \in pending_uploads : p.blobId = blobId} IN
    IF found = {}
    THEN [valid |-> FALSE, reason |-> "Upload not found or expired",
          table |-> pending_uploads]
    ELSE LET pending == CHOOSE p \in found : TRUE IN
         IF pending.authUserId # authUserId
         THEN [valid |-> FALSE, reason |-> "Upload belongs to another user",
               table |-> pending_uploads]
         ELSE IF isExpired(pending, t)
         THEN [valid |-> FALSE, reason |-> "Upload expired",
               table |-> pending_uploads \ {pending}]
         ELSE [valid |-> TRUE, reason |-> NoError, table |-> pending_uploads \ {pending}]

totalUploading == uploading["auth1"] + uploading["auth2"]

uploadResponse(authUserId, status, blobId) ==
    [op |-> "upload", authUserId |-> authUserId, status |-> status, blobId |-> blobId]

(* POST /upload up to the one-upload-at-a-time check *)
uploadRequest(authUserId) ==
    /\ nextBlob + totalUploading < MaxBlobs
    /\ IF authUserId = NoAuth
       THEN /\ last' = uploadResponse(authUserId, 401, NoId)
            /\ UNCHANGED uploading
       ELSE IF hasPendingUpload(authUserId)
       THEN /\ last' = uploadResponse(authUserId, 429, NoId)
            /\ UNCHANGED uploading
       ELSE /\ uploading' = [uploading EXCEPT ![authUserId] = @ + 1]
            /\ UNCHANGED last
    /\ UNCHANGED <<pending_uploads, stl_files, nextBlob, fileUpload>>

(* POST /upload from checkUploadRateLimit to the response *)
uploadProceeds(authUserId, blobWritten) ==
    /\ uploading[authUserId] > 0
    /\ uploading' = [uploading EXCEPT ![authUserId] = @ - 1]
    /\ LET limited == Len(usersByAuthUserId(authUserId)) > 0
           rateOk == ~limited \/ rateLimitOk(fileUpload[authUserId], FILE_UPLOAD_CAPACITY)
       IN /\ fileUpload' = IF limited /\ rateOk
                           THEN [fileUpload EXCEPT ![authUserId] = @ + 1]
                           ELSE fileUpload
          /\ IF ~rateOk
             THEN /\ last' = uploadResponse(authUserId, 429, NoId)
                  /\ UNCHANGED <<pending_uploads, nextBlob>>
             ELSE IF ~blobWritten
             THEN /\ last' = uploadResponse(authUserId, 500, NoId)
                  /\ UNCHANGED <<pending_uploads, nextBlob>>
             ELSE /\ nextBlob' = nextBlob + 1
                  /\ pending_uploads' =
                        registerPendingUpload(nextBlob + 1, authUserId, now)
                  /\ last' = uploadResponse(authUserId, 200, nextBlob + 1)
    /\ UNCHANGED stl_files

(* files.commitFile: a throw rolls back the consumption made inside it *)
commitFileError(authUserId, blobId, isBase, committed) ==
    IF authUserId = NoAuth THEN ErrNotAuthenticated
    ELSE IF Len(usersByAuthUserId(authUserId)) = 0 THEN "App user not found"
    ELSE IF ~consumePendingUpload(blobId, authUserId, now).valid
    THEN consumePendingUpload(blobId, authUserId, now).reason
    ELSE IF isBase /\ usersByAuthUserId(authUserId)[1].email \notin AdminEmails
    THEN "Only admins can upload base samples"
    ELSE IF ~committed THEN "commitFiles failed"
    ELSE NoError

commitFile(authUserId, blobId, isBase, committed) ==
    LET err == commitFileError(authUserId, blobId, isBase, committed)
        reached == authUserId # NoAuth /\ Len(usersByAuthUserId(authUserId)) > 0
        uploadValidation == consumePendingUpload(blobId, authUserId, now)
    IN /\ last' = [op |-> "commitFile", error |-> err,
                   valid |-> reached /\ uploadValidation.valid]
       /\ IF err = NoError
          THEN /\ pending_uploads' = uploadValidation.table
               /\ stl_files' = Append(stl_files,
                                  [userId |-> usersByAuthUserId(authUserId)[1]._id,
                                   blobId |-> blobId, isBase |-> isBase,
                                   createdAt |-> now])
          ELSE UNCHANGED <<pending_uploads, stl_files>>
       /\ UNCHANGED <<nextBlob, uploading, fileUpload>>

(* cleanupExpiredUploads *)
cleanupExpiredUploads ==
    /\ expiredUploads(now) # {}
    /\ pending_uploads' = pending_uploads \ expiredUploads(now)
    /\ last' = [op |-> "cleanupExpiredUploads",
                deleted |-> Cardinality(expiredUploads(now))]
    /\ UNCHANGED <<stl_files, nextBlob, uploading, fileUpload>>

(* Half of the ticket lifetime passes; the token bucket, ten tokens an     *)
(* hour with room for five, is full again.                                 *)
uploadTick ==
    /\ now + (PENDING_UPLOAD_TTL \div 2) <= MaxUploadTime
    /\ now' = now + (PENDING_UPLOAD_TTL \div 2)
    /\ fileUpload' = [a \in Uploaders |-> 0]
    /\ sessionCreate' = [a \in Identities |-> 0]
    /\ backerVerify' = [k \in HandleKeys |-> 0]
    /\ last' = [op |-> "tick"]
    /\ UNCHANGED <<users, backers, app_state, nextSession, nextClaim, issued, redeemed,
                   pending_uploads, stl_files, nextBlob, uploading>>

----------------------------------------------------------------------------
(* App: the OAuth-redirect pending state of one page, signed in as auth1   *)

AUTH_PENDING_TIMEOUT == 45

ErrGoogleSignIn == "We could not complete Google sign-in."

(* The page before it is loaded; sessionStorage outlives the redirect *)
unloadedApp(stored) ==
    [stored |-> stored, mounted |-> FALSE, authPending |-> FALSE,
     isAuthenticated |-> FALSE, sessionId |-> NoSession, appUserQuery |-> "undefined",
     isEnsuringUser |-> FALSE, ensureUserError |-> NoError,
     authPendingError |-> NoError, armed |-> FALSE, elapsed |-> 0]

(* useQuery(getCurrentAppUser, isAuthenticated && sessionId ? {} : "skip") *)
appUserQuerySkipped(a) ==
    IF a.isAuthenticated /\ a.sessionId # NoSession THEN a
    ELSE [a EXCEPT !.appUserQuery = "undefined"]

(* The effect that clears the flag once everything has resolved *)
pendingResolved(a) ==
    IF a.authPending /\ a.isAuthenticated /\ a.sessionId # NoSession
                     /\ a.appUserQuery # "undefined"
    THEN [a EXCEPT !.stored = FALSE, !.authPending = FALSE, !.authPendingError = NoError]
    ELSE a

(* The effect that sets the 45 s timer, run again when a dependency changes *)
pendingTimer(old, a) ==
    IF old.mounted /\ <<a.authPending, a.isAuthenticated, a.sessionId>>
                        = <<old.authPending, old.isAuthenticated, old.sessionId>>
    THEN a
    ELSE [a EXCEPT !.armed = a.authPending, !.elapsed = 0]

(* The effect that calls ensureAppUser when authenticated without a session *)
ensureUserEffect(old, a) ==
    IF /\ a.isAuthenticated /\ a.sessionId = NoSession
       /\ \/ ~old.mounted
          \/ <<a.isAuthenticated, a.sessionId>> # <<old.isAuthenticated, old.sessionId>>
    THEN [a EXCEPT !.isEnsuringUser = TRUE, !.ensureUserError = NoError]
    ELSE a

appRender(old, new) ==
    ensureUserEffect(old, pendingTimer(old, pendingResolved(appUserQuerySkipped(new))))

(* What the timeout callback does: it clears the flag only when the page   *)
(* is neither authenticated nor holds a session                            *)
onAuthTimeout(a) ==
    IF ~a.isAuthenticated /\ a.sessionId = NoSession
    THEN [a EXCEPT !.stored = FALSE, !.authPending = FALSE,
                   !.authPendingError = ErrGoogleSignIn, !.armed = FALSE]
    ELSE [a EXCEPT !.armed = FALSE]

signInErrorScreen(a) ==
    a.ensureUserError # NoError /\ a.isAuthenticated /\ a.sessionId = NoSession

(* "Continue with Google": the flag is stored and the browser leaves the page *)
googleSignIn ==
    /\ app.mounted /\ ~app.isAuthenticated
    /\ app' = unloadedApp(TRUE)

(* The page is loaded, on a first visit or coming back from the redirect *)
pageLoads ==
    /\ ~app.mounted
    /\ app' = appRender(app, [app EXCEPT !.mounted = TRUE, !.authPending = app.stored])

(* useConvexAuth reports the identity *)
authResolves ==
    /\ app.mounted /\ ~app.isAuthenticated
    /\ app' = appRender(app, [app EXCEPT !.isAuthenticated = TRUE])

(* The ensureAppUser call of the effect and its then / catch / finally *)
ensureUserSettles ==
    /\ app.mounted /\ app.isEnsuringUser
    /\ ensureAppUser("auth1", NoId, NoToken)
    /\ app' = appRender(app,
                IF last'.ok
                THEN [app EXCEPT !.sessionId = last'.sessionId, !.isEnsuringUser = FALSE]
                ELSE [app EXCEPT !.ensureUserError = last'.error,
                                 !.isEnsuringUser = FALSE])

(* getCurrentAppUser answers *)
appUserQueryArrives ==
    /\ app.mounted /\ app.isAuthenticated /\ app.sessionId # NoSession
    /\ app.appUserQuery = "undefined"
    /\ app' = appRender(app, [app EXCEPT !.appUserQuery =
                                 IF Len(usersByAuthUserId("auth1")) = 0
                                 THEN "null" ELSE "user"])

(* A third of the timeout passes while the timer is set *)
pendingTick ==
    /\ app.armed /\ app.elapsed < AUTH_PENDING_TIMEOUT
    /\ app' = [app EXCEPT !.elapsed = @ + (AUTH_PENDING_TIMEOUT \div 3)]

authTimeoutFires ==
    /\ app.armed /\ app.elapsed = AUTH_PENDING_TIMEOUT
    /\ app' = appRender(app, onAuthTimeout(app))

(* "Try Again" on the sign-in error screen *)
tryAgain ==
    /\ app.mounted /\ signInErrorScreen(app)
    /\ app' = [app EXCEPT !.ensureUserError = NoError, !.isEnsuringUser = TRUE]

(* handleSignOut, from the sign-in error screen or the user page *)
appSignOut ==
    /\ app.mounted /\ app.isAuthenticated /\ ~app.isEnsuringUser
    /\ signInErrorScreen(app) \/ app.appUserQuery = "user"
    /\ app' = appRender(app, [app EXCEPT !.stored = FALSE, !.authPending = FALSE,
                                         !.authPendingError = NoError,
                                         !.ensureUserError = NoError,
                                         !.sessionId = NoSession,
                                         !.isAuthenticated = FALSE])

AppInit == app = unloadedApp(FALSE)

UploadInit ==
    /\ pending_uploads = {}
    /\ stl_files = <<>>
    /\ nextBlob = 0
    /\ uploading = [a \in Uploaders |-> 0]
    /\ fileUpload = [a \in Uploaders |-> 0]

CatalogInit ==
    /\ pricing_catalog = <<>>
    /\ stripe = [products |-> {prod_A, prod_B}, prices |-> {price_1, price_3}]
    /\ syncRun = idleSync

----------------------------------------------------------------------------
(* The server *)

ServerInit ==
    /\ now = 1
    /\ users = <<>>
    /\ backers = <<>>
    /\ app_state = <<>>
    /\ nextSession = 0
    /\ nextClaim = 0
    /\ sessionCreate = [a \in Identities |-> 0]
    /\ backerVerify = [k \in HandleKeys |-> 0]
    /\ issued = [a \in Identities |-> <<>>]
    /\ redeemed = {}
    /\ last = [op |-> "init"]

Init == ServerInit /\ TabInit /\ CatalogInit /\ UploadInit /\ AppInit

EnsureAppUser ==
    /\ nextSession < MaxSessions
    /\ \E a \in SignUpCallers, b \in BackerIds, t \in BackerTokens :
          ensureAppUser(a, b, t)
    /\ UNCHANGED <<tabVars, catalogVars, uploadVars, appVars>>

(* ensureAppUser as the client calls it when no backer was verified *)
EnsureAppUserNoBacker ==
    /\ nextSession < MaxSessions
    /\ \E a \in Callers : ensureAppUser(a, NoId, NoToken)
    /\ UNCHANGED <<tabVars, catalogVars, uploadVars, appVars>>

ValidateSession ==
    /\ \E a \in Callers, s \in SessionIds : validateSession(a, s)
    /\ UNCHANGED <<tabVars, catalogVars, uploadVars, appVars>>

AppStateGet == get /\ UNCHANGED <<tabVars, catalogVars, uploadVars, appVars>>

AppStateSet == (\E v \in BOOLEAN : set(v)) /\ UNCHANGED <<tabVars, catalogVars, uploadVars, appVars>>

InsertAppStateRow == (\E v \in BOOLEAN : insertAppStateRow(v)) /\ UNCHANGED <<tabVars, catalogVars, uploadVars, appVars>>

AddBacker ==
    /\ \E u \in StoredUsernames, c \in StoredCodes : addBacker(u, c, "Gold")
    /\ UNCHANGED <<tabVars, catalogVars, uploadVars, appVars>>

ClaimAdmissionProof ==
    /\ \E b \in BackerIds : claimAdmissionProof(b)
    /\ UNCHANGED <<tabVars, catalogVars, uploadVars, appVars>>

VerifyBacker ==
    /\ \E h \in Handles, c \in AccessCodes : verifyBacker(h, c)
    /\ UNCHANGED <<tabVars, catalogVars, uploadVars, appVars>>

TimePasses == Tick /\ UNCHANGED <<tabVars, catalogVars, uploadVars, appVars>>

(* Sign-up admission and session establishment *)
Next ==
    \/ EnsureAppUser
    \/ AddBacker
    \/ ClaimAdmissionProof
    \/ AppStateSet
    \/ TimePasses

Spec == Init /\ [][Next]_vars

(* Sign-up admission where a call may also fail after its writes *)
EnsureAppUserAborts ==
    /\ \E a \in SignUpCallers, b \in BackerIds, t \in BackerTokens :
          ensureAppUserAborts(a, b, t)
    /\ UNCHANGED <<tabVars, catalogVars, uploadVars, appVars>>

NextAdmission ==
    \/ EnsureAppUser
    \/ EnsureAppUserAborts
    \/ AddBacker
    \/ ClaimAdmissionProof
    \/ AppStateSet
    \/ TimePasses

SpecAdmission == Init /\ [][NextAdmission]_vars

(* Session validation *)
NextSession ==
    \/ EnsureAppUserNoBacker
    \/ ValidateSession

SpecSession == Init /\ [][NextSession]_vars

(* Backer verification *)
NextBacker ==
    \/ AddBacker
    \/ VerifyBacker
    \/ TimePasses

SpecBacker == Init /\ [][NextBacker]_vars

(* The app_state singleton *)
NextAppState ==
    \/ AppStateGet
    \/ AppStateSet
    \/ InsertAppStateRow
    \/ EnsureAppUserNoBacker
    \/ TimePasses

SpecAppState == Init /\ [][NextAppState]_vars

(* The duplicate-tab handshake *)
NextTabs ==
    \/ OpenTab
    \/ CheckTimeoutFires
    \/ OnMessage
    \/ CloseTab
    \/ TabTimePasses

SpecTabs == Init /\ [][NextTabs]_vars

(* The pricing catalog and the checkout *)
serverRest == <<now, users, backers, app_state, nextSession, nextClaim,
                sessionCreate, backerVerify, issued, redeemed>>

SyncCallers == {NoAuth, "auth1", "auth2"}

SyncBegins ==
    (\E caller \in SyncCallers, envSet \in BOOLEAN : syncBegins(caller, envSet))
        /\ UNCHANGED <<serverRest, tabVars, uploadVars, appVars>>
SyncStep ==
    (\E raises \in BOOLEAN : syncStep(raises)) /\ UNCHANGED <<serverRest, tabVars, uploadVars, appVars>>
StripeChanges ==
    (\E account \in StripeAccounts : stripeChanges(account))
        /\ UNCHANGED <<serverVars, tabVars, uploadVars, appVars>>
CreateCheckoutSession ==
    (\E a \in {"auth1", NoAuth}, g \in BOOLEAN, r \in CheckoutRequests :
            createCheckoutSession(a, g, r.tier, r.interval, r.audience))
        /\ UNCHANGED <<serverRest, tabVars, uploadVars, appVars>>

NextCatalog ==
    \/ SyncBegins
    \/ SyncStep
    \/ StripeChanges
    \/ TimePasses

SpecCatalog == Init /\ [][NextCatalog]_vars

NextCheckout ==
    \/ SyncBegins
    \/ SyncStep
    \/ StripeChanges
    \/ CreateCheckoutSession

SpecCheckout == Init /\ [][NextCheckout]_vars

(* One identity signing in again and again: the calls of one window are  *)
(* counted up to one past the sessionCreate quota                        *)
SignInAgain ==
    /\ nextSession <= SESSION_CREATE_RATE
    /\ ensureAppUser("auth1", NoId, NoToken)
    /\ UNCHANGED <<tabVars, catalogVars, uploadVars, appVars>>

NextThrottle ==
    \/ SignInAgain
    \/ ValidateSession
    \/ TimePasses

SpecThrottle == Init /\ [][NextThrottle]_vars

(* Uploads and commits of two identities, who sign up, if they do, before *)
(* the first half hour has passed                                         *)
UploaderSignsUp ==
    (\E a \in Uploaders :
        /\ now = 1
        /\ Len(usersByAuthUserId(a)) = 0
        /\ ensureAppUser(a, NoId, NoToken))
        /\ UNCHANGED <<tabVars, catalogVars, uploadVars, appVars>>
UploadRequest ==
    (\E a \in Uploaders \cup {NoAuth} : uploadRequest(a))
        /\ UNCHANGED <<serverRest, tabVars, catalogVars, appVars>>
UploadProceeds ==
    (\E a \in Uploaders, blobWritten \in BOOLEAN : uploadProceeds(a, blobWritten))
        /\ UNCHANGED <<serverRest, tabVars, catalogVars, appVars>>
CommitFile ==
    (\E a \in Uploaders \cup {NoAuth}, b \in BlobIds, isBase \in BOOLEAN,
        committed \in BOOLEAN : commitFile(a, b, isBase, committed))
        /\ UNCHANGED <<serverRest, tabVars, catalogVars, appVars>>
CleanupExpiredUploads ==
    cleanupExpiredUploads /\ UNCHANGED <<serverRest, tabVars, catalogVars, appVars>>
UploadTimePasses == uploadTick /\ UNCHANGED <<tabVars, catalogVars, appVars>>

NextUploads ==
    \/ UploaderSignsUp
    \/ UploadRequest
    \/ UploadProceeds
    \/ CommitFile
    \/ CleanupExpiredUploads
    \/ UploadTimePasses

SpecUploads == Init /\ [][NextUploads]_vars

(* The pages of one browser and the server; SignInElsewhere is a sign-in   *)
(* of the same identity on another device.                                 *)
SignInElsewhere ==
    /\ nextSession < MaxSessions
    /\ ensureAppUser("auth1", NoId, NoToken)
    /\ UNCHANGED <<tabVars, catalogVars, uploadVars, appVars>>

NextClient ==
    \/ OpenClientTab
    \/ CheckTimeoutFires
    \/ OnMessage
    \/ CloseTab
    \/ ValidationArrives
    \/ LoginBegins
    \/ LoginEnds
    \/ EnsureAppUserRequest
    \/ EnsureAppUserSettles
    \/ HandleSignOut
    \/ ClearKicked
    \/ StorageEdited
    \/ SignInElsewhere

SpecClient == Init /\ [][NextClient]_vars

(* The OAuth-redirect pending state of one page, with the server behind it *)
GoogleSignIn == googleSignIn /\ UNCHANGED <<serverVars, tabVars, catalogVars, uploadVars>>
PageLoads == pageLoads /\ UNCHANGED <<serverVars, tabVars, catalogVars, uploadVars>>
AuthResolves == authResolves /\ UNCHANGED <<serverVars, tabVars, catalogVars, uploadVars>>
EnsureUserSettles ==
    /\ nextSession < MaxSessions
    /\ ensureUserSettles
    /\ UNCHANGED <<tabVars, catalogVars, uploadVars>>
AppUserQueryArrives ==
    appUserQueryArrives /\ UNCHANGED <<serverVars, tabVars, catalogVars, uploadVars>>
PendingTick == pendingTick /\ UNCHANGED <<serverVars, tabVars, catalogVars, uploadVars>>
AuthTimeoutFires ==
    authTimeoutFires /\ UNCHANGED <<serverVars, tabVars, catalogVars, uploadVars>>
TryAgain == tryAgain /\ UNCHANGED <<serverVars, tabVars, catalogVars, uploadVars>>
AppSignOut == appSignOut /\ UNCHANGED <<serverVars, tabVars, catalogVars, uploadVars>>

NextPending ==
    \/ GoogleSignIn
    \/ PageLoads
    \/ AuthResolves
    \/ EnsureUserSettles
    \/ AppUserQueryArrives
    \/ PendingTick
    \/ AuthTimeoutFires
    \/ TryAgain
    \/ AppSignOut
    \/ AppStateSet

SpecPending == Init /\ [][NextPending]_vars

(* A timer that was set fires and a posted message is delivered while the  *)
(* pages stay open.                                                        *)
SpecTabsFair ==
    SpecTabs /\ WF_vars(CheckTimeoutFires) /\ WF_vars(OnMessage)

----------------------------------------------------------------------------
(* What the claims below speak about *)

IsEnsure == last.op = "ensureAppUser"

(* The admission flag as the rows of app_state give it: the flag of a row  *)
(* that no other row is newer than.                                        *)
NewestRows(rows) ==
    {i \in 1..Len(rows) : \A j \in 1..Len(rows) : rows[j]._creationTime <= rows[i]._creationTime}
FlagOn(rows) == \E i \in NewestRows(rows) : rows[i].crowdfundingActive

(* The proof a call presented, as it was stored when the call started *)
ProofFound == last.crowdfundingBackerId \in 1..Len(last.backersBefore)
ProofBefore == last.backersBefore[last.crowdfundingBackerId]
PresentsProof ==
    /\ IsEnsure
    /\ last.crowdfundingBackerId # NoId
    /\ last.crowdfundingBackerToken # NoToken
ReachesGate == IsEnsure /\ last.authUserId # NoAuth /\ last.rateOk /\ ~last.existed
EmailFree ==
    \A i \in 1..Len(last.usersBefore) :
        last.usersBefore[i].email = emailOf(last.authUserId)
            => last.usersBefore[i].authUserId = last.authUserId
Rejected == ~last.ok /\ users = last.usersBefore /\ backers = last.backersBefore

Valid == [valid |-> TRUE]
Invalid(reason) == [valid |-> FALSE, reason |-> reason]

(* C1: after a successful ensureAppUser the returned session id validates  *)
(* as valid, and every session id an earlier successful call returned for  *)
(* the same identity validates as session_invalidated: of the ids issued   *)
(* to an identity only the one stored as activeSessionId is valid.         *)
C1_OnlyNewestSessionValid ==
    /\ \A a \in Identities : \A k \in 1..Len(issued[a]) :
          validateSessionResult(a, issued[a][k]) =
              IF k = Len(issued[a]) THEN Valid ELSE Invalid("session_invalidated")
    /\ \A a \in Identities : \A k \in 1..Len(issued[a]) :
          validateSessionResult(a, issued[a][k]) = Valid
              <=> /\ Len(usersByAuthUserId(a)) = 1
                  /\ usersByAuthUserId(a)[1].activeSessionId = issued[a][k]
    /\ (IsEnsure /\ last.ok)
          => validateSessionResult(last.authUserId, last.sessionId) = Valid

C1_Witness ==
    /\ IsEnsure /\ last.ok
    /\ Len(issued[last.authUserId]) >= 2
    /\ validateSessionResult(last.authUserId, issued[last.authUserId][1])
          = Invalid("session_invalidated")

(* C2: with the admission flag on, ensureAppUser for an identity without   *)
(* an ApplicationUser and without a proof id is rejected, and neither a    *)
(* users record nor a session id is created for the identity.              *)
C2_GatedSignUpNeedsProof ==
    (IsEnsure /\ FlagOn(app_state) /\ ~last.existed /\ last.crowdfundingBackerId = NoId)
        => /\ Rejected
           /\ last.authUserId # NoAuth
                 => /\ usersByAuthUserId(last.authUserId) = <<>>
                    /\ issued[last.authUserId] = <<>>

C2_Witness ==
    /\ IsEnsure /\ FlagOn(app_state) /\ ~last.existed
    /\ last.authUserId # NoAuth
    /\ last.crowdfundingBackerId = NoId
    /\ last.error = ErrBackerRequired

(* C3 as stated: every later ensureAppUser call that presents a proof id   *)
(* and claim token which already admitted a user fails as already used.    *)
C3_EveryLaterCallFails ==
    (/\ PresentsProof /\ ProofFound
     /\ ProofBefore.usedByUserId # NoId
     /\ <<last.crowdfundingBackerId, last.crowdfundingBackerToken>> \in redeemed)
        => (~last.ok /\ last.error = ErrAlreadyUsed)

(* C3, amended: with gating on, the first call that reaches the gate and   *)
(* presents an unexpired claim token exactly creates the user and consumes *)
(* the proof; a later call with the same proof id and token fails as       *)
(* already used when its identity has no ApplicationUser, and succeeds     *)
(* without touching the proof when its identity has one.                   *)
C3_ProofAdmitsOnce ==
    /\ (/\ ReachesGate /\ PresentsProof /\ ProofFound /\ FlagOn(app_state) /\ EmailFree
        /\ ProofBefore.usedByUserId = NoId
        /\ ProofBefore.pendingClaimToken = last.crowdfundingBackerToken
        /\ ProofBefore.pendingClaimExpiresAt >= last.at)
          => /\ last.ok
             /\ Len(users) = Len(last.usersBefore) + 1
             /\ users[last.userId].authUserId = last.authUserId
             /\ users[last.userId].crowdfundingBackerId = last.crowdfundingBackerId
             /\ backers[last.crowdfundingBackerId].usedByUserId = last.userId
             /\ backers[last.crowdfundingBackerId].pendingClaimToken = NoToken
             /\ <<last.crowdfundingBackerId, last.crowdfundingBackerToken>> \in redeemed
    /\ (/\ PresentsProof /\ ProofFound
        /\ ProofBefore.usedByUserId # NoId
        /\ <<last.crowdfundingBackerId, last.crowdfundingBackerToken>> \in redeemed)
          => /\ ReachesGate => (Rejected /\ last.error = ErrAlreadyUsed)
             /\ (last.existed /\ last.rateOk)
                   => (last.ok /\ backers = last.backersBefore
                       /\ Len(users) = Len(last.usersBefore))

C3_Witness ==
    /\ ReachesGate /\ PresentsProof /\ ProofFound /\ FlagOn(app_state)
    /\ ProofBefore.usedByUserId # NoId
    /\ <<last.crowdfundingBackerId, last.crowdfundingBackerToken>> \in redeemed
    /\ last.error = ErrAlreadyUsed

(* C4: a claim token older than the ten minutes it lives is rejected for a *)
(* new identity although the proof exists, is unconsumed and the presented *)
(* token equals the stored one; no user is created and the proof stays     *)
(* unconsumed.                                                             *)
C4_ExpiredClaimRejected ==
    (/\ PresentsProof /\ ProofFound /\ ~last.existed
     /\ ProofBefore.usedByUserId = NoId
     /\ ProofBefore.pendingClaimToken = last.crowdfundingBackerToken
     /\ ProofBefore.pendingClaimExpiresAt < last.at)
        => /\ Rejected
           /\ backers[last.crowdfundingBackerId].usedByUserId = NoId
           /\ ReachesGate => last.error = ErrClaimExpired

C4_Witness ==
    /\ ReachesGate /\ PresentsProof /\ ProofFound
    /\ ProofBefore.usedByUserId = NoId
    /\ ProofBefore.pendingClaimToken = last.crowdfundingBackerToken
    /\ ProofBefore.pendingClaimExpiresAt < last.at
    /\ last.error = ErrClaimExpired

(* C5: a call that reaches the gate for a new identity and presents a      *)
(* proof that is not found, already consumed, without or past a claim      *)
(* token, or with another claim token than the presented one, is rejected  *)
(* with the reason of that failure, and neither a user is created nor the  *)
(* proof record changed.                                                   *)
C5_Reasons ==
    IF ~ProofFound THEN {ErrInvalidBacker}
    ELSE IF ProofBefore.usedByUserId # NoId THEN {ErrAlreadyUsed}
    ELSE IF ProofBefore.pendingClaimToken = NoToken THEN {ErrClaimExpired}
    ELSE (IF ProofBefore.pendingClaimExpiresAt < last.at THEN {ErrClaimExpired} ELSE {})
         \cup (IF ProofBefore.pendingClaimToken # last.crowdfundingBackerToken
               THEN {ErrClaimMismatch} ELSE {})

C5_ProofFailureReasons ==
    (ReachesGate /\ PresentsProof /\ C5_Reasons # {})
        => /\ Rejected
           /\ last.error \in C5_Reasons

C5_Witness ==
    /\ ReachesGate /\ PresentsProof /\ ProofFound
    /\ ProofBefore.usedByUserId = NoId
    /\ ProofBefore.pendingClaimToken \notin {NoToken, last.crowdfundingBackerToken}
    /\ ProofBefore.pendingClaimExpiresAt >= last.at
    /\ last.error = ErrClaimMismatch

IsValidate == last.op = "validateSession"

(* C6 as stated: a session id that does not have the UUID v4 shape is      *)
(* answered with the reason invalid_token_format.                          *)
C6_ReasonInvalidTokenFormat ==
    (IsValidate /\ last.sessionId \in MalformedSessionIds)
        => last.result = Invalid("invalid_token_format")

(* C6, amended: a session id that does not have the UUID v4 shape is       *)
(* answered with the reason invalid_session_id, whoever calls and whether  *)
(* or not a users record exists.                                           *)
C6_MalformedSessionIdRejected ==
    (IsValidate /\ last.sessionId \in MalformedSessionIds)
        => last.result = Invalid("invalid_session_id")

C6_Witness ==
    /\ IsValidate
    /\ last.sessionId \in MalformedSessionIds \ {NoSession}
    /\ last.authUserId # NoAuth
    /\ Len(usersByAuthUserId(last.authUserId)) = 1
    /\ last.result = Invalid("invalid_session_id")

(* C7: verifyBacker matches the handle whatever its case: a call that the  *)
(* rate limiter lets through, with a handle that lower-cases to the        *)
(* lower-cased username of an unconsumed backer and with its access code,  *)
(* is answered valid with that backer's id and tier.                       *)
C7_HandleCaseInsensitive ==
    \A i \in 1..Len(backers) :
        (/\ last.op = "verifyBacker"
         /\ last.result # Invalid("rate_limited")
         /\ toLowerCase(last.username) = toLowerCase(backers[i].username)
         /\ last.accessCode = backers[i].accessCode
         /\ backers[i].usedByUserId = NoId)
            => last.result = [valid |-> TRUE, backerId |-> backers[i]._id,
                              tier |-> backers[i].tier]

(* C8: with several app_state rows of different creation times, every read *)
(* of the admission flag uses the newest row: appState.get returns its     *)
(* flag, and ensureAppUser asks a new identity for a backer exactly when    *)
(* its flag is set.                                                        *)
DistinctCreationTimes(rows) ==
    \A i, j \in 1..Len(rows) : i # j => rows[i]._creationTime # rows[j]._creationTime

C8_NewestRowDecides ==
    /\ (last.op = "appState.get" /\ Len(last.before) > 0
            /\ DistinctCreationTimes(last.before))
          => last.value.crowdfundingActive = FlagOn(last.before)
    /\ (ReachesGate /\ EmailFree /\ last.crowdfundingBackerId = NoId
            /\ Len(app_state) > 0 /\ DistinctCreationTimes(app_state))
          => (last.ok <=> ~FlagOn(app_state))

C8_Witness ==
    /\ ReachesGate /\ last.crowdfundingBackerId = NoId
    /\ Len(app_state) = 2
    /\ DistinctCreationTimes(app_state)
    /\ ~app_state[1].crowdfundingActive
    /\ app_state[2].crowdfundingActive
    /\ last.error = ErrBackerRequired

(* C9: after appState.set(v), however many rows with key "config" there    *)
(* were, exactly one is left and its crowdfundingActive is v.              *)
C9_SetLeavesOneRow ==
    last.op = "appState.set"
        => /\ Len(app_state) = 1
           /\ app_state[1].crowdfundingActive = last.crowdfundingActive

C9_Witness ==
    /\ last.op = "appState.set"
    /\ Len(last.before) = 2
    /\ last.before[1].crowdfundingActive # last.before[2].crowdfundingActive
    /\ Len(app_state) = 1

(* C10: of the tabs of one browser that hold the same session, a tab that  *)
(* opened before every other one is never marked duplicate, whatever the   *)
(* order in which TAB_CHECK and TAB_EXISTS are delivered.                  *)
OpenedBeforeAllOthers(t) ==
    /\ tabs[t].tabOpenedAt # NoTime
    /\ \A u \in TabIds \ {t} :
          tabs[u].tabOpenedAt # NoTime => tabs[t].tabOpenedAt < tabs[u].tabOpenedAt

C10_EarlierTabNeverDuplicate ==
    \A t \in TabIds : OpenedBeforeAllOthers(t) => ~tabs[t].isDuplicateTab

C10_Witness ==
    \E a, b \in TabIds :
        /\ tabs[a].tabOpenedAt # NoTime /\ tabs[b].tabOpenedAt # NoTime
        /\ tabs[a].tabOpenedAt < tabs[b].tabOpenedAt
        /\ OpenedBeforeAllOthers(a)
        /\ b \in tabs[a].heard
        /\ ~tabs[a].isDuplicateTab
        /\ tabs[b].isDuplicateTab

(* C11: of two open tabs that hold the same session, the one that opened   *)
(* later is eventually marked duplicate and stays so while both pages are  *)
(* open, whatever the order in which the handshake is delivered.           *)
BothOpen(a, b) == tabs[a].mounted /\ tabs[b].mounted

LaterTabsMarked ==
    \A a, b \in TabIds :
        (BothOpen(a, b) /\ tabs[a].tabOpenedAt < tabs[b].tabOpenedAt)
            => tabs[b].isDuplicateTab

C11_LaterTabEventuallyDuplicate == <>[]LaterTabsMarked

C11_Witness ==
    \E a, b \in TabIds :
        /\ BothOpen(a, b)
        /\ tabs[a].tabOpenedAt < tabs[b].tabOpenedAt
        /\ localeCompare(b, a) < 0
        /\ a \in tabs[b].heard
        /\ tabs[b].isDuplicateTab

(* C12: when two tabs have equal open-times and distinct tab ids, only the *)
(* tab whose id orders after the other's is marked duplicate on account of *)
(* the other, so the two never flag each other.                            *)
SameOpenTime(a, b) ==
    /\ a # b
    /\ tabs[a].tabOpenedAt # NoTime
    /\ tabs[a].tabOpenedAt = tabs[b].tabOpenedAt

C12_TieBrokenByTabId ==
    \A a, b \in TabIds :
        SameOpenTime(a, b) =>
            /\ b \in tabs[a].flaggedBy => localeCompare(b, a) < 0
            /\ ~(b \in tabs[a].flaggedBy /\ a \in tabs[b].flaggedBy)

C12_Witness ==
    \E a, b \in TabIds :
        /\ SameOpenTime(a, b)
        /\ b \in tabs[a].heard /\ a \in tabs[b].heard
        /\ b \in tabs[a].flaggedBy
        /\ ~tabs[b].isDuplicateTab

(* C13: once a page is marked duplicate it stays duplicate for as long as  *)
(* it lives; nothing that happens elsewhere, such as the other tab         *)
(* closing, clears the mark.                                               *)
ShownDuplicate(tab) == tab.mounted /\ returnedIsDuplicateTab(tab)

C13_DuplicateIsOneWay ==
    [][\A t \in TabIds :
          (ShownDuplicate(tabs[t]) /\ tabs'[t].mounted) => ShownDuplicate(tabs'[t])]_vars

(* C13, for pages whose session token is well formed: the mark is one-way *)
C13_OneWayWhenTokenWellFormed ==
    [][\A t \in TabIds :
          (ShownDuplicate(tabs[t]) /\ tabs'[t].mounted /\ SESSION_ID_REGEX(tabs[t].sessionId))
              => ShownDuplicate(tabs'[t])]_vars

(* C18: a page whose validation result became session_invalidated stays   *)
(* in the kicked state until the user dismisses it with clearKicked; until *)
(* then it holds no ensureAppUser request and keeps its old session id.    *)
C18_KickedUntilDismissed ==
    \A t \in TabIds :
        (tabs[t].mounted /\ tabs[t].kickedSince) =>
            /\ wasKicked(tabs[t])
            /\ tabs[t].ensure \notin {"calling", "resolved"}

(* C18, the part that holds: a kicked page is given a new session only     *)
(* after clearKicked.                                                      *)
C18_NewSessionOnlyAfterDismissal ==
    [][\A t \in TabIds :
          (tabs[t].mounted /\ tabs[t].kickedSince /\ tabs'[t].kickedSince)
              => /\ tabs'[t].sessionId = tabs[t].sessionId
                 /\ tabs'[t].ensure \notin {"calling", "resolved"}]_vars

(* C19: a page never works with a stored session token that is not of the  *)
(* shape of a session id: it is rejected and the storage entry cleared as  *)
(* soon as the page has loaded it, with or without a login.                *)
C19_MalformedTokenRejectedAtOnce ==
    \A t \in TabIds :
        (tabs[t].mounted /\ tabs[t].sessionId # NoSession
            /\ ~SESSION_ID_REGEX(tabs[t].sessionId))
        => /\ effectiveSessionId(tabs[t]) = NoSession
           /\ localStorage # tabs[t].sessionId

(* C19, the part that holds: once the server's answer has arrived the      *)
(* token is rejected and the storage entry cleared.                        *)
C19_RejectedAfterRoundTrip ==
    \A t \in TabIds :
        (tabs[t].mounted /\ tabs[t].sessionValidation = "invalid_session_id")
        => /\ effectiveSessionId(tabs[t]) = NoSession
           /\ localStorage # tabs[t].sessionId

----------------------------------------------------------------------------
(* Checkout and the pricing catalog *)

cachedPricesAtCall == IF Len(last.catalog) = 0 THEN <<>> ELSE last.catalog[1].prices

requestedPrices ==
    {i \in DOMAIN cachedPricesAtCall :
        /\ cachedPricesAtCall[i].tier = last.tier
        /\ cachedPricesAtCall[i].audience = last.audience
        /\ cachedPricesAtCall[i].interval = last.interval
        /\ cachedPricesAtCall[i].active}

(* C14: createCheckoutSession proceeds only when the cached catalog holds   *)
(* exactly one active price with the requested tier, audience and interval, *)
(* and then it uses that price; with no such price or more than one the     *)
(* call is rejected, no price is used, and for a caller who passed the      *)
(* authentication and backer checks the error is one of the catalog errors. *)
C14_CheckoutUsesTheSingleMatch ==
    last.op = "createCheckoutSession" =>
        /\ last.error = NoError =>
              /\ Cardinality(requestedPrices) = 1
              /\ \A i \in requestedPrices : last.priceId = cachedPricesAtCall[i].priceId
        /\ Cardinality(requestedPrices) # 1 =>
              /\ last.error # NoError
              /\ last.priceId = ""
              /\ (last.authUserId # NoAuth
                    /\ (last.audience = "backer" => last.backerAccessGranted))
                 => last.error \in {ErrNoCatalog, ErrNoPrice, ErrMultiplePrices}

C14_Witness ==
    /\ last.op = "createCheckoutSession"
    /\ Cardinality(requestedPrices) = 2
    /\ last.error = ErrMultiplePrices

C14_CheckoutProceeds ==
    /\ last.op = "createCheckoutSession"
    /\ last.error = NoError
    /\ Len(cachedPricesAtCall) = 3

sameSnapshotData(row, before) ==
    /\ row.products = before.products
    /\ row.prices = before.prices
    /\ row.lastSyncedAt = before.lastSyncedAt

(* C15: a sync that failed left the products, the prices and the time of   *)
(* the last successful sync as they were before it began and set only      *)
(* lastSyncError and lastSyncFailedAt; when no snapshot existed it created *)
(* an empty one carrying the error; a sync that threw before its try block *)
(* wrote nothing; and a sync in progress has written nothing yet.          *)
C15_FailedSyncKeepsCatalog ==
    /\ syncRun.pc # "idle" => pricing_catalog = syncRun.before
    /\ (last.op = "pricingCatalog.sync" /\ ~last.success /\ syncRun.pc = "idle") =>
          IF last.threw THEN pricing_catalog = last.before
          ELSE /\ Len(pricing_catalog) = 1
               /\ pricing_catalog[1].lastSyncError # NoError
               /\ pricing_catalog[1].lastSyncFailedAt = last.at
               /\ IF Len(last.before) > 0
                  THEN sameSnapshotData(pricing_catalog[1], last.before[1])
                  ELSE /\ pricing_catalog[1].products = <<>>
                       /\ pricing_catalog[1].prices = <<>>
                       /\ pricing_catalog[1].lastSyncedAt = NoTime

C15_Witness ==
    /\ last.op = "pricingCatalog.sync"
    /\ ~last.success
    /\ ~last.threw
    /\ syncRun.pc = "idle"
    /\ Len(last.before) > 0
    /\ Len(last.before[1].prices) = 2
    /\ Cardinality(stripe.prices) = 3
    /\ last.before[1].lastSyncedAt < last.at

C15_EmptySnapshotCreated ==
    /\ last.op = "pricingCatalog.sync"
    /\ ~last.success
    /\ ~last.threw
    /\ Len(last.before) = 0
    /\ Len(pricing_catalog) = 1

----------------------------------------------------------------------------
(* Pending-upload tickets *)

ticketsFor(blobId) == {p \in pending_uploads : p.blobId = blobId}

ownerOf(file) == {users[i].authUserId : i \in {j \in DOMAIN users : users[j]._id = file.userId}}

(* C16: a pending-upload ticket is consumed at most once, only by the      *)
(* identity that registered it, and not after it expired: whenever         *)
(* commitFile stores a file, the ticket of its blob was in the table,      *)
(* belonged to the file's owner and had not expired, the ticket is gone    *)
(* afterwards, and no file had been stored from that blob before.          *)
C16_TicketConsumedOnceByOwner ==
    [][Len(stl_files') > Len(stl_files) =>
          LET file == stl_files'[Len(stl_files')] IN
          /\ \E p \in ticketsFor(file.blobId) :
                /\ p.authUserId \in ownerOf(file)
                /\ p.expiresAt >= now
          /\ \A p \in pending_uploads' : p.blobId # file.blobId
          /\ \A i \in DOMAIN stl_files : stl_files[i].blobId # file.blobId]_vars

(* A file was stored from a ticket while the other identity held an older  *)
(* one, and a later commitFile found no ticket                             *)
C16_Witness ==
    /\ Len(stl_files) = 1
    /\ \E p \in pending_uploads :
          /\ p.authUserId \notin ownerOf(stl_files[1])
          /\ p.createdAt < stl_files[1].createdAt
    /\ last.op = "commitFile"
    /\ last.error = "Upload not found or expired"

C16_RejectedForOtherUser ==
    last.op = "commitFile" /\ last.error = "Upload belongs to another user"

C16_RejectedAsExpired ==
    last.op = "commitFile" /\ last.error = "Upload expired" /\ pending_uploads # {}

----------------------------------------------------------------------------
(* Admission while the flag is off *)

Admitted ==
    /\ last.ok
    /\ Len(usersByAuthUserId(last.authUserId)) = 1
    /\ usersByAuthUserId(last.authUserId)[1].activeSessionId = last.sessionId
    /\ Len(users) = Len(last.usersBefore) + 1

ProofGood ==
    /\ last.crowdfundingBackerToken # NoToken
    /\ ProofFound
    /\ ProofBefore.usedByUserId = NoId
    /\ ProofBefore.pendingClaimToken = last.crowdfundingBackerToken
    /\ ProofBefore.pendingClaimExpiresAt >= last.at

ProofErrors ==
    {ErrTokenRequired, ErrInvalidBacker, ErrAlreadyUsed, ErrClaimExpired, ErrClaimMismatch}

(* C20 as stated: with the admission flag off, ensureAppUser for an         *)
(* identity without an ApplicationUser creates the user and a session       *)
(* whatever proof id and claim token are supplied.                          *)
C20_AdmissionUnconditionalWhenOff ==
    (ReachesGate /\ ~FlagOn(app_state) /\ EmailFree) => Admitted

(* C20, amended: with the admission flag off, ensureAppUser for an identity *)
(* without an ApplicationUser creates the user and a session when no proof  *)
(* id is supplied; a supplied proof id is validated as it is with the flag  *)
(* on, so the call creates the user exactly when the proof is known, unused *)
(* and its claim token matches and has not expired, and is otherwise        *)
(* rejected with the proof's error and creates nothing.                     *)
C20_OffAdmitsUnlessProofIsBad ==
    (ReachesGate /\ ~FlagOn(app_state) /\ EmailFree) =>
        /\ last.crowdfundingBackerId = NoId => Admitted
        /\ last.crowdfundingBackerId # NoId => (Admitted <=> ProofGood)
        /\ ~last.ok => Rejected /\ last.error \in ProofErrors

C20_Witness ==
    /\ ReachesGate /\ ~FlagOn(app_state) /\ EmailFree
    /\ last.crowdfundingBackerId # NoId
    /\ ProofFound
    /\ ProofBefore.usedByUserId # NoId
    /\ last.error = ErrAlreadyUsed

----------------------------------------------------------------------------
(* The sessionCreate quota *)

(* The calls of the identity counted in the window when the last call began *)
countBefore == sessionCreate[last.authUserId] - (IF last.ok THEN 1 ELSE 0)

(* C17: an ensureAppUser call made after the identity has used up its      *)
(* sessionCreate quota of 10 in the window does not succeed, reports a     *)
(* retry-after duration, and leaves the users records, so activeSessionId  *)
(* and sessionStartedAt, unchanged: the session id issued last still       *)
(* validates.                                                              *)
C17_ThrottledCallKeepsSession ==
    (IsEnsure /\ last.authUserId # NoAuth /\ countBefore >= SESSION_CREATE_RATE) =>
        /\ ~last.ok
        /\ last.error = ErrRateLimited
        /\ last.retryAfter > 0
        /\ users = last.usersBefore
        /\ Len(issued[last.authUserId]) = SESSION_CREATE_RATE
        /\ validateSessionResult(last.authUserId,
                                 issued[last.authUserId][SESSION_CREATE_RATE]) = Valid

(* The quota holds: no identity is issued more than 10 session ids in one  *)
(* window.                                                                 *)
C17_QuotaHolds ==
    \A a \in Identities : sessionCreate[a] <= SESSION_CREATE_RATE

C17_Witness ==
    /\ IsEnsure /\ last.authUserId = "auth1" /\ ~last.ok
    /\ last.error = ErrRateLimited
    /\ sessionCreate["auth1"] = SESSION_CREATE_RATE
    /\ Len(last.usersBefore) = 1

----------------------------------------------------------------------------
(* ensureAppUser for an identity that has an ApplicationUser *)

ExistingBefore ==
    {i \in DOMAIN last.usersBefore : last.usersBefore[i].authUserId = last.authUserId}

sessionFieldsOnly(after, before) ==
    /\ DOMAIN after = DOMAIN before
    /\ \A f \in DOMAIN before \ {"activeSessionId", "sessionStartedAt"} : after[f] = before[f]

(* C21: when the identity already has an ApplicationUser, ensureAppUser     *)
(* succeeds whatever the admission flag, proof id and token are, creates no *)
(* users record, changes of the identity's record only activeSessionId and  *)
(* sessionStartedAt, leaves every other users record as it was, and         *)
(* changes no backer record.                                                *)
C21_ExistingUserOnlySessionChanges ==
    (IsEnsure /\ last.authUserId # NoAuth /\ last.rateOk
        /\ Cardinality(ExistingBefore) = 1) =>
        /\ last.ok
        /\ Len(users) = Len(last.usersBefore)
        /\ \A i \in DOMAIN users :
              IF i \in ExistingBefore
              THEN /\ sessionFieldsOnly(users[i], last.usersBefore[i])
                   /\ users[i].activeSessionId = last.sessionId
                   /\ users[i].sessionStartedAt = last.at
              ELSE users[i] = last.usersBefore[i]
        /\ backers = last.backersBefore

C21_Witness ==
    /\ IsEnsure /\ last.ok /\ last.existed
    /\ FlagOn(app_state)
    /\ last.crowdfundingBackerId # NoId
    /\ ProofFound
    /\ ProofBefore.usedByUserId # NoId
    /\ last.usersBefore[CHOOSE i \in ExistingBefore : TRUE].activeSessionId # last.sessionId

----------------------------------------------------------------------------
(* Who may sync the pricing catalog *)

isAdminCaller(authUserId) == authUserId # NoAuth /\ emailOf(authUserId) \in AdminEmails

(* C22: a call to pricingCatalog.sync by a caller who is not an            *)
(* authenticated admin leaves the snapshot as it was: products, prices and *)
(* the sync and error fields.                                              *)
C22_SyncAdminOnly ==
    (last.op = "pricingCatalog.sync" /\ syncRun.pc = "idle" /\ ~isAdminCaller(last.caller))
        => pricing_catalog = last.before

----------------------------------------------------------------------------
(* One upload at a time *)

pendingOf(authUserId) == {p \in pending_uploads : p.authUserId = authUserId}

(* C23: in every reachable state an identity has at most one pending       *)
(* upload record, also when two of its /upload requests are in flight at   *)
(* the same time.                                                          *)
C23_OnePendingUploadPerUser ==
    \A a \in Uploaders : Cardinality(pendingOf(a)) <= 1

(* With one request at a time the refusal holds: a request that arrives    *)
(* while the identity has a pending record is answered 429.                *)
C23_RefusedWhilePending ==
    [][\A a \in Uploaders : uploading'[a] > uploading[a] => pendingOf(a) = {}]_vars

----------------------------------------------------------------------------
(* Two sign-ins of one identity from two devices *)

(* C24: of the session ids that the two most recent ensureAppUser calls of *)
(* an identity returned, which are different ids, exactly one validates as *)
(* valid, the one of the call whose write was applied last, and the other  *)
(* validates as session_invalidated; this holds in every state, so also    *)
(* while the response of either call is still on its way to its device.    *)
C24_LastWriterWins ==
    \A a \in Identities :
        Len(issued[a]) >= 2 =>
            LET n == Len(issued[a]) IN
            /\ issued[a][n - 1] # issued[a][n]
            /\ validateSessionResult(a, issued[a][n]) = Valid
            /\ validateSessionResult(a, issued[a][n - 1]) = Invalid("session_invalidated")

(* The page's call was applied first and the other device's call second,   *)
(* before the page's response arrived: the id on its way is invalidated.   *)
C24_Witness ==
    /\ Len(issued["auth1"]) = 2
    /\ \E t \in ClientTabs :
          /\ tabs[t].ensure = "resolved"
          /\ tabs[t].ensureResult = issued["auth1"][1]

----------------------------------------------------------------------------
(* A sign-up that fails after the proof was marked *)

FailedAfterMark ==
    /\ IsEnsure /\ ~last.ok
    /\ last.error = ErrCreateFailed
    /\ last.crowdfundingBackerId # NoId

ReferencedByUser(backerId) ==
    \E i \in DOMAIN users : users[i].crowdfundingBackerId = backerId

----------------------------------------------------------------------------
(* Validation that finds no application user *)

(* C26: an authenticated tab that holds a token is kicked also when        *)
(* validation reports that no application user exists for the identity:    *)
(* wasKicked is true and the stored token is cleared.                      *)
C26_KickedWhenNoAppUser ==
    \A t \in ClientTabs :
        (/\ tabs[t].mounted
         /\ login # NoAuth
         /\ tabs[t].sessionId # NoSession
         /\ tabs[t].sessionValidation = "no_app_user")
            => (wasKicked(tabs[t]) /\ localStorage = NoSession)

(* On a token mismatch the tab is kicked and the stored token cleared *)
C26_KickedOnMismatch ==
    \A t \in ClientTabs :
        (/\ tabs[t].mounted
         /\ tabs[t].sessionId # NoSession
         /\ tabs[t].sessionValidation = "session_invalidated")
            => (wasKicked(tabs[t]) /\ localStorage # tabs[t].sessionId)

----------------------------------------------------------------------------
(* Uniqueness of users records *)

(* C27: in every reachable state no two users records have the same        *)
(* authUserId and no two have the same email, whatever ensureAppUser calls *)
(* were made, by one identity repeatedly or by two identities that share   *)
(* an email.                                                               *)
C27_OneUserPerIdentityAndEmail ==
    \A i, j \in DOMAIN users :
        i # j => /\ users[i].authUserId # users[j].authUserId
                 /\ users[i].email # users[j].email

(* A second identity with the email of an existing user was turned away *)
C27_Witness ==
    /\ IsEnsure /\ ~last.ok
    /\ last.error = ErrEmailExists
    /\ \E i \in DOMAIN users :
          /\ users[i].email = emailOf(last.authUserId)
          /\ users[i].authUserId # last.authUserId

----------------------------------------------------------------------------
(* The link between a consumed proof and its user *)

usersOfProof(b) == {i \in DOMAIN users : users[i].crowdfundingBackerId = b}

ProofLinked ==
    /\ \A i \in DOMAIN users :
          users[i].crowdfundingBackerId # NoId
              => users[i].crowdfundingBackerId \in DOMAIN backers
    /\ \A b \in DOMAIN backers :
          /\ Cardinality(usersOfProof(b)) <= 1
          /\ backers[b].usedByUserId # NoId <=> usersOfProof(b) # {}
          /\ \A i \in usersOfProof(b) : users[i]._id = backers[b].usedByUserId
          /\ backers[b].usedByUserId # NoId
                => /\ backers[b].pendingClaimToken = NoToken
                   /\ backers[b].pendingClaimExpiresAt = NoTime

ConsumptionKept ==
    \A b \in DOMAIN backers :
        backers[b].usedByUserId # NoId
            => /\ b \in DOMAIN backers'
               /\ backers'[b].usedByUserId = backers[b].usedByUserId

(* C28: in every reachable state a backer record has usedByUserId set      *)
(* exactly when one users record has crowdfundingBackerId pointing to it,  *)
(* that user is the one usedByUserId names, no two users share a proof, a  *)
(* consumed proof carries no pending claim token, and no step clears or    *)
(* changes a usedByUserId that is set.                                     *)
C28_ConsumptionLinkedAndTerminal == []ProofLinked /\ [][ConsumptionKept]_vars

(* A consumed proof was presented again, and another proof was claimed     *)
(* while the first stayed consumed                                         *)
C28_Witness ==
    /\ \E b \in DOMAIN backers :
          /\ backers[b].usedByUserId # NoId
          /\ backers[b].usedAt < now
          /\ usersOfProof(b) # {}
    /\ IsEnsure /\ ~last.ok /\ last.error = ErrAlreadyUsed

----------------------------------------------------------------------------
(* Expired upload tickets and their owner *)

unexpiredOf(a) == {p \in pendingOf(a) : ~isExpired(p, now)}

refusedAsPending(a) ==
    /\ last' = uploadResponse(a, 429, NoId)
    /\ uploading' = uploading

(* C29: an expired, never-committed pending upload does not block its      *)
(* owner: a /upload request is refused by the one-upload-at-a-time check   *)
(* only while its user has a pending upload whose expiry has not passed.   *)
C29_ExpiredTicketDoesNotBlock ==
    [][\A a \in Uploaders : refusedAsPending(a) => unexpiredOf(a) # {}]_vars

(* The check refuses only a user who has a pending upload, expired or not  *)
C29_RefusedOnlyWithTicket ==
    [][\A a \in Uploaders : refusedAsPending(a) => pendingOf(a) # {}]_vars

----------------------------------------------------------------------------
(* The end of the OAuth-redirect pending state *)

timeoutFired ==
    /\ app.armed /\ app.elapsed = AUTH_PENDING_TIMEOUT
    /\ app' = appRender(app, onAuthTimeout(app))

nothingInFlight ==
    /\ ~app.isEnsuringUser
    /\ ~(app.isAuthenticated /\ app.sessionId # NoSession /\ app.appUserQuery = "undefined")

(* C30: the pending state always ends: when the timeout fires while the    *)
(* flag is set and neither the session call nor the app-user query is      *)
(* still outstanding, the flag is cleared and the error is shown.          *)
C30_TimeoutEndsPending ==
    [][(timeoutFired /\ app.authPending /\ nothingInFlight)
          => (~app'.authPending /\ ~app'.stored /\ app'.authPendingError # NoError)]_vars

(* The timeout does end the pending state of a page that is not            *)
(* authenticated and holds no session                                      *)
C30_TimeoutEndsUnauthenticatedPending ==
    [][(timeoutFired /\ app.authPending /\ ~app.isAuthenticated /\ app.sessionId = NoSession)
          => (~app'.authPending /\ ~app'.stored /\ app'.authPendingError # NoError)]_vars

(* Everything resolved: the flag is cleared *)
C30_ResolvedEndsPending ==
    (app.isAuthenticated /\ app.sessionId # NoSession /\ app.appUserQuery # "undefined")
        => ~app.authPending

====
